---- MODULE Spec2Model ----
(***************************************************************************)
(* A model of the libredfish vendor backends for NVIDIA BMCs:              *)
(*   src/src/nvidia_gbx00.rs  (GB200 / Bianca, async)                      *)
(*   src/src/nvidia.rs        (NVIDIA generic)                             *)
(* A client invokes one operation at a time on a backend; the operation    *)
(* issues its requests one after the other through the transport           *)
(* (self.s.client) or through the wrapped standard backend (self.s).       *)
(* Strings are sequences of tokens, so that starts_with, contains and      *)
(* replace are computed and not assumed.                                   *)
(***************************************************************************)
EXTENDS Integers, Sequences, FiniteSets, TLC

VARIABLES
    bmc,    \* the state of the BMC the client talks to
    call,   \* the operation being (or last) invoked: [op, arg]
    pc,     \* the position of the invocation: "idle" before, "done" after
    loc,    \* the local variables of the running operation
    reqs,   \* the requests this invocation has put on the wire, in order
    res,    \* the result of the invocation once it has returned
    hist    \* the invocations that have returned, oldest first

vars == <<bmc, call, pc, loc, reqs, res, hist>>

(***************************************************************************)
(* Bounds of the model.                                                    *)
(***************************************************************************)
MaxBoot == 3      \* at most this many boot options on the system
MaxRetry == 1     \* the transport re-issues a request at most this often
MaxIdLen == 5     \* an odata_id of the BMC has at most this many tokens
MaxCalls == 2     \* the client makes at most this many calls in a row
MaxTicks == 4     \* a caller's timeout is at most this many ticks
MaxEntries == 3   \* the system event log holds at most this many entries

(***************************************************************************)
(* Strings.                                                                *)
(***************************************************************************)
\* str::starts_with
StartsWith(s, p) == Len(p) <= Len(s) /\ SubSeq(s, 1, Len(p)) = p

\* str::contains
Contains(s, p) == \E i \in 0..(Len(s) - Len(p)) : SubSeq(s, i + 1, i + Len(p)) = p

\* str::replace(p, ""): every non-overlapping occurrence of p, found in one
\* scan from the left, is removed; the result is not scanned again.
RECURSIVE Remove(_, _)
Remove(s, p) ==
    IF Len(s) = 0 \/ Len(p) = 0 THEN s
    ELSE IF StartsWith(s, p) THEN Remove(SubSeq(s, Len(p) + 1, Len(s)), p)
    ELSE <<Head(s)>> \o Remove(Tail(s), p)

None == [some |-> FALSE]
Some(x) == [some |-> TRUE, val |-> x]

Ok(v) == [ok |-> TRUE, val |-> v]
Err(kind, detail) == [ok |-> FALSE, err |-> [kind |-> kind, detail |-> detail]]
Running == [ok |-> FALSE, err |-> [kind |-> "running", detail |-> <<>>]]

(***************************************************************************)
(* The BMC of the boot and settings operations.                            *)
(*   vendor    which backend the client was built with                     *)
(*   order     ComputerSystem.Boot.BootOrder, a list of BootOption ids     *)
(*   opt       the kind of BootOption behind each id                       *)
(*   override  Boot.BootSourceOverride{Enabled,Target} as last PATCHed     *)
(*   policy    AccountService lockout fields as last PATCHed               *)
(*   uefi      the UEFI password attributes as last PATCHed                *)
(***************************************************************************)
SystemId == "System_0"

Vendors == {"gb200", "nvidia"}

\* The boot options a system can carry: DisplayName and UefiDevicePath.
BootKinds == {"http", "pxe", "disk", "lower"}

DisplayName(k) ==
    CASE k = "http"  -> <<"UEFI ", "HTTPv4", " (MAC:", "A088C2", ")">>
      [] k = "pxe"   -> <<"UEFI ", "PXEv4", " (MAC:", "A088C2", ")">>
      [] k = "disk"  -> <<"ubuntu">>
      [] k = "lower" -> <<"uefi ", "httpv4">>

UefiDevicePath(k) ==
    CASE k = "http"  -> Some(<<"MAC(", "A088C2", ")/", "IPv4", "/Uri()">>)
      [] k = "pxe"   -> None
      [] k = "disk"  -> Some(<<"HD(", "1,GPT", ")/", "shimaa64.efi">>)
      [] k = "lower" -> Some(<<"PciRoot(", "0x0", ")/", "HD(", "1,GPT", ")">>)

\* The BootOption resource the BMC serves for a member of BootOrder.
BootOptionAt(member) ==
    [id |-> member,
     display_name |-> DisplayName(bmc.opt[member]),
     uefi_device_path |-> UefiDevicePath(bmc.opt[member])]

Boots == {"Pxe", "HardDisk", "UefiHttp"}

BootOptionNameToString(name) ==
    CASE name = "Http" -> <<"UEFI ", "HTTPv4">>
      [] name = "Pxe"  -> <<"UEFI ", "PXEv4">>
      [] name = "Hdd"  -> <<"HD(">>

\* The list s turned left by k places.
Rotate(s, k) == [i \in 1..Len(s) |-> s[((i + k - 1) % Len(s)) + 1]]

NoCall == [op |-> "none", arg |-> <<>>]
NoLocals == [tries |-> 0]

\* No operation has been invoked yet.
Idle ==
    /\ call = NoCall
    /\ pc = "idle"
    /\ loc = NoLocals
    /\ reqs = <<>>
    /\ res = Running
    /\ hist = <<>>

(***************************************************************************)
(* The transport (self.s.client).  Every call puts requests on the wire;   *)
(* an attempt ends "ok", with a transport error or with an HTTP error.     *)
(***************************************************************************)
Outcomes == {"ok", "transport", "http"}

ErrorOf(o, url) ==
    Err(IF o = "transport" THEN "Transport" ELSE "RemoteError", url)

Wire(verb, url, body, o) ==
    [verb |-> verb, url |-> url, body |-> body, try |-> loc.tries + 1, outcome |-> o]

\* The operation returns r, leaving the BMC as b.
Finish(r, b) ==
    /\ pc' = "done"
    /\ res' = r
    /\ hist' = Append(hist, [call |-> call, reqs |-> reqs', res |-> r, bmc |-> b])

\* The operation goes on at position p.
Goto(p) == pc' = p /\ UNCHANGED <<res, hist>>

\* client.get as the backend sees it: one request, answered or failed.
ClientGet(url, o) == reqs' = Append(reqs, Wire("GET", url, None, o))

\* client.patch: the request is put on the wire; a transport error is retried
\* while retries are left, any other failure is returned at once.  On success
\* the BMC holds newBmc and the operation continues with done.
ClientPatch(url, body, newBmc) ==
    \E o \in Outcomes :
        /\ reqs' = Append(reqs, Wire("PATCH", url, body, o))
        /\ IF o = "ok"
           THEN /\ bmc' = newBmc
                /\ loc' = [loc EXCEPT !.tries = 0]
                /\ Finish(Ok(<<>>), newBmc)
           ELSE IF o = "transport" /\ loc.tries < MaxRetry
           THEN /\ loc' = [loc EXCEPT !.tries = @ + 1]
                /\ Goto(pc)
                /\ UNCHANGED bmc
           ELSE /\ loc' = [loc EXCEPT !.tries = 0]
                /\ Finish(ErrorOf(o, url), bmc)
                /\ UNCHANGED bmc

\* The caller invokes an operation: a fresh invocation with its arguments.
Invoke(op, arg, locals, start) ==
    /\ pc = "idle"
    /\ call' = [op |-> op, arg |-> arg]
    /\ loc' = locals
    /\ pc' = start
    /\ reqs' = <<>>
    /\ res' = Running
    /\ UNCHANGED <<bmc, hist>>

(***************************************************************************)
(* GB200: boot_first, set_boot_order, get_boot_options_ids_with_first,     *)
(* change_boot_order.                                                      *)
(***************************************************************************)
SystemUrl == <<"Systems/", SystemId>>
BootOptionUrl(member) == <<"Systems/", SystemId, "/BootOptions/", member>>
SettingsUrl == <<"Systems/", SystemId, "/Settings">>

BootOrderBody(boot_array) == [Boot |-> [BootOrder |-> boot_array]]

\* The locals of get_boot_options_ids_with_first.
WithFirstLocals(with_name, match_field, with_name_str) ==
    [name_str |-> IF with_name_str.some THEN with_name_str.val
                  ELSE BootOptionNameToString(with_name),
     match_field |-> match_field,
     ordered |-> <<>>,
     boot_options |-> <<>>,
     next |-> 1,
     tries |-> 0]

SetBootOrderLocals(name) == WithFirstLocals(name, "DisplayName", None)

BootFirstLocals(target) ==
    CASE target = "Pxe" -> SetBootOrderLocals("Pxe")
      [] target = "HardDisk" -> WithFirstLocals("Hdd", "UefiDevicePath", None)
      [] target = "UefiHttp" -> SetBootOrderLocals("Http")

InvokeBootFirst ==
    \E target \in Boots :
        /\ bmc.vendor = "gb200"
        /\ Invoke("boot_first", target, BootFirstLocals(target), "get_system")

\* self.s.get_system().await?.boot.boot_order
GetSystem ==
    /\ pc = "get_system"
    /\ \E o \in Outcomes :
        /\ ClientGet(SystemUrl, o)
        /\ IF o = "ok"
           THEN /\ loc' = [loc EXCEPT !.boot_options = bmc.order]
                /\ Goto(IF bmc.order = <<>> THEN "change_boot_order"
                        ELSE "get_boot_option")
           ELSE /\ Finish(ErrorOf(o, SystemUrl), bmc)
                /\ UNCHANGED loc
    /\ UNCHANGED <<bmc, call>>

IsMatch(b, match_field, name_str) ==
    IF match_field = "DisplayName"
    THEN StartsWith(b.display_name, name_str)
    ELSE b.uefi_device_path.some /\ StartsWith(b.uefi_device_path.val, name_str)

\* One turn of the loop body: the matching option goes to the front, any
\* other to the back.
Place(ordered, b, is_match) ==
    IF is_match THEN <<b.id>> \o ordered ELSE Append(ordered, b.id)

\* GetBootOption with the failure of a GET swallowed: the loop goes on with the
\* next member instead of returning the error.
GetBootOptionSkipFailed ==
    /\ pc = "get_boot_option"
    /\ LET member == loc.boot_options[loc.next]
           url == BootOptionUrl(member)
           b == BootOptionAt(member)
       IN \E o \in Outcomes :
            /\ ClientGet(url, o)
            /\ loc' = [loc EXCEPT
                         !.ordered = IF o = "ok"
                                     THEN Place(@, b, IsMatch(b, loc.match_field, loc.name_str))
                                     ELSE @,
                         !.next = @ + 1]
            /\ Goto(IF loc.next = Len(loc.boot_options) THEN "change_boot_order"
                    ELSE "get_boot_option")
    /\ UNCHANGED <<bmc, call>>

\* for member in boot_options { self.s.get_boot_option(member).await? ... }
GetBootOption ==
    /\ pc = "get_boot_option"
    /\ LET member == loc.boot_options[loc.next]
           url == BootOptionUrl(member)
           b == BootOptionAt(member)
       IN \E o \in Outcomes :
            /\ ClientGet(url, o)
            /\ IF o = "ok"
               THEN /\ loc' = [loc EXCEPT
                                 !.ordered = Place(@, b, IsMatch(b, loc.match_field, loc.name_str)),
                                 !.next = @ + 1]
                    /\ Goto(IF loc.next = Len(loc.boot_options) THEN "change_boot_order"
                            ELSE "get_boot_option")
               ELSE /\ Finish(ErrorOf(o, url), bmc)
                    /\ UNCHANGED loc
    /\ UNCHANGED <<bmc, call>>

\* ChangeBootOrder with the PATCH issued again after it failed.
ChangeBootOrderReissue ==
    /\ pc = "change_boot_order"
    /\ \/ ClientPatch(SettingsUrl, BootOrderBody(loc.ordered),
                      [bmc EXCEPT !.order = loc.ordered])
       \/ /\ reqs # <<>>
          /\ reqs[Len(reqs)].verb = "PATCH"
          /\ Cardinality({i \in 1..Len(reqs) : reqs[i].verb = "PATCH"}) <= MaxRetry + 1
          /\ reqs' = Append(reqs, Wire("PATCH", SettingsUrl, BootOrderBody(loc.ordered), "http"))
          /\ Goto(pc)
          /\ UNCHANGED <<bmc, loc>>
    /\ UNCHANGED call

\* change_boot_order(boot_array): one PATCH of the settings resource.
ChangeBootOrder ==
    /\ pc = "change_boot_order"
    /\ ClientPatch(SettingsUrl, BootOrderBody(loc.ordered),
                   [bmc EXCEPT !.order = loc.ordered])
    /\ UNCHANGED call

InvokeChangeBootOrder ==
    \E boot_array \in {Rotate(bmc.order, k) : k \in 0..Len(bmc.order)} :
        /\ bmc.vendor = "gb200"
        /\ Invoke("change_boot_order", boot_array,
                  [ordered |-> boot_array, tries |-> 0], "change_boot_order")

(***************************************************************************)
(* GB200: boot_once (set_boot_override) and set_machine_password_policy.   *)
(* NVIDIA generic: change_uefi_password.                                   *)
(***************************************************************************)
OverrideUrl == <<"Systems/", SystemId, "/Settings", " ">>

OverrideBody(override_target, override_enabled) ==
    [Boot |-> [BootSourceOverrideEnabled |-> override_enabled,
               BootSourceOverrideTarget |-> override_target]]

\* BootOnceTarget that hands the target on under its own name.
BootOnceTargetUnmapped(target) == target

BootOnceTarget(target) ==
    CASE target = "Pxe" -> "Pxe"
      [] target = "HardDisk" -> "Hdd"
      [] target = "UefiHttp" -> "UefiHttp"

InvokeBootOnce ==
    \E target \in Boots :
        /\ bmc.vendor = "gb200"
        /\ Invoke("boot_once", target,
                  [override_target |-> BootOnceTarget(target),
                   override_enabled |-> "Once", tries |-> 0],
                  "set_boot_override")

SetBootOverride ==
    /\ pc = "set_boot_override"
    /\ ClientPatch(OverrideUrl, OverrideBody(loc.override_target, loc.override_enabled),
                   [bmc EXCEPT !.override = OverrideBody(loc.override_target,
                                                         loc.override_enabled).Boot])
    /\ UNCHANGED call

PasswordPolicyBody ==
    [AccountLockoutThreshold |-> 0, AccountLockoutDuration |-> 600]

InvokeSetMachinePasswordPolicy ==
    /\ bmc.vendor = "gb200"
    /\ Invoke("set_machine_password_policy", <<>>, NoLocals, "set_machine_password_policy")

SetMachinePasswordPolicy ==
    /\ pc = "set_machine_password_policy"
    /\ ClientPatch(<<"AccountService">>, PasswordPolicyBody,
                   [bmc EXCEPT !.policy = PasswordPolicyBody])
    /\ UNCHANGED call

Passwords == {"", "secret"}

BiosSettingsUrl == <<"Systems/", SystemId, "/Bios/Settings">>

UefiPasswordBody(current_uefi_password, new_uefi_password) ==
    [Attributes |-> [CurrentUefiPassword |-> current_uefi_password,
                     UefiPassword |-> new_uefi_password]]

InvokeNvChangeUefiPassword ==
    \E current_uefi_password, new_uefi_password \in Passwords :
        /\ bmc.vendor = "nvidia"
        /\ Invoke("change_uefi_password", <<current_uefi_password, new_uefi_password>>,
                  [current |-> current_uefi_password, new |-> new_uefi_password,
                   tries |-> 0],
                  "nv_change_uefi_password")

NvChangeUefiPassword ==
    /\ pc = "nv_change_uefi_password"
    /\ ClientPatch(BiosSettingsUrl, UefiPasswordBody(loc.current, loc.new),
                   [bmc EXCEPT !.uefi = loc.new])
    /\ UNCHANGED call

(***************************************************************************)
(* The boot and settings specification.                                    *)
(***************************************************************************)
NoOverride == [BootSourceOverrideEnabled |-> "Disabled",
               BootSourceOverrideTarget |-> "None"]

PriorPolicy == [AccountLockoutThreshold |-> 3, AccountLockoutDuration |-> 900]

Init ==
    /\ \E n \in 0..MaxBoot :
         \E opt \in [1..n -> BootKinds] :
         \E vendor \in Vendors :
            bmc = [vendor |-> vendor,
                   order |-> [i \in 1..n |-> i],
                   opt |-> opt,
                   override |-> NoOverride,
                   policy |-> PriorPolicy,
                   uefi |-> ""]
    /\ Idle

Next ==
    \/ InvokeBootFirst
    \/ GetSystem
    \/ GetBootOption
    \/ ChangeBootOrder
    \/ InvokeChangeBootOrder
    \/ InvokeBootOnce
    \/ SetBootOverride
    \/ InvokeSetMachinePasswordPolicy
    \/ SetMachinePasswordPolicy
    \/ InvokeNvChangeUefiPassword
    \/ NvChangeUefiPassword

Spec == Init /\ [][Next]_vars

\* The caller, boot_first having succeeded, makes its next call.
BootFirstAgain ==
    /\ pc = "done"
    /\ call.op = "boot_first"
    /\ res.ok
    /\ Len(hist) < MaxCalls
    /\ pc' = "idle"
    /\ UNCHANGED <<bmc, call, loc, reqs, res, hist>>

SpecBootFirstAgain == Init /\ [][Next \/ BootFirstAgain]_vars

\* The longest BootOrder two joined invocations are run against.
MaxPairBoot == 2

\* Two boot_first futures on the same client, joined: one is being polled
\* (call, pc, loc, res), the other waits at its await point in loc.parked.
InvokeBootFirstPair ==
    \E target, other \in Boots :
        /\ target # other
        /\ bmc.vendor = "gb200"
        /\ Len(bmc.order) <= MaxPairBoot
        /\ Invoke("boot_first", target,
                  BootFirstLocals(target) @@
                      [parked |-> [call |-> [op |-> "boot_first", arg |-> other],
                                   pc |-> "get_system",
                                   loc |-> BootFirstLocals(other),
                                   res |-> Running]],
                  "get_system")

\* At an await point the executor polls the other future, if it has not
\* returned yet.
Yield ==
    /\ pc # "idle"
    /\ "parked" \in DOMAIN loc
    /\ loc.parked.pc # "done"
    /\ call' = loc.parked.call
    /\ pc' = loc.parked.pc
    /\ res' = loc.parked.res
    /\ loc' = loc.parked.loc @@
                  [parked |-> [call |-> call,
                               pc |-> pc,
                               loc |-> [f \in DOMAIN loc \ {"parked"} |-> loc[f]],
                               res |-> res]]
    /\ UNCHANGED <<bmc, reqs, hist>>

SpecBootFirstPair ==
    Init /\ [][InvokeBootFirstPair \/ GetSystem \/ GetBootOption
                 \/ ChangeBootOrder \/ Yield]_vars

(***************************************************************************)
(* GB200: get_power_metrics.                                               *)
(* The BMC of the chassis walks:                                           *)
(*   pdb          Chassis/PDB_0 read as a PowerSupply                      *)
(*   chassis_all  the chassis ids get_chassis_all returns                  *)
(*   chassis      per chassis id, the Sensors collection it links to (or   *)
(*                none) as the list of its members' odata_id               *)
(***************************************************************************)
RedfishPrefix == <<"/redfish", "/v1/">>

\* odata_id.replace("/redfish/v1/", "")
Relative(odata_id) == Remove(odata_id, RedfishPrefix)

ChassisUrl(chassis_id) == <<"Chassis/", chassis_id>>
SensorsUrl(chassis_id) == <<"Chassis/", chassis_id, "/Sensors">>

\* The odata_id of a sensor as a well-behaved BMC reports it.
SensorId(chassis_id, name) ==
    RedfishPrefix \o <<"Chassis/", chassis_id, "/Sensors", "/">> \o name

\* The sensors a chassis can list, in the order it lists them.
SensorNames(chassis_id) ==
    CASE chassis_id = "PDB_0" ->
            << <<"HSC_0_Pwr">>, <<"HSC_0_Cur">>, <<"HSC_1_Pwr">>, <<"HSC_1_Cur">>,
               <<"HSC_0_", "Volt">> >>
      [] chassis_id = "Chassis_0" ->
            << <<"Volt", "_0">>, <<"Temp", "_0">>, <<"Volt", "_1">> >>
      [] chassis_id = "HGX_GPU_0" ->
            << <<"HGX_", "Volt">> >>

ChassisIds == <<"PDB_0", "Chassis_0", "HGX_GPU_0">>

\* Sensor.reading and Sensor.reading_range_max as the BMC reports them.
Reading(name) ==
    CASE name = <<"HSC_0_Pwr">> -> Some(250)
      [] name = <<"HSC_0_Cur">> -> Some(20)
      [] name = <<"HSC_1_Pwr">> -> Some(240)
      [] name = <<"HSC_1_Cur">> -> Some(19)
      [] name = <<"HSC_0_", "Volt">> -> Some(54)
      [] name = <<"Volt", "_0">> -> Some(12)
      [] name = <<"Volt", "_1">> -> Some(5)
      [] name = <<"HGX_", "Volt">> -> Some(48)
      [] OTHER -> None

ReadingRangeMax(name) ==
    CASE name = <<"HSC_0_Pwr">> -> Some(500)
      [] name = <<"HSC_1_Pwr">> -> Some(510)
      [] OTHER -> None

\* The Sensor resource the BMC serves at a relative URL.
SensorAt(url) ==
    IF Len(url) > 4 /\ SubSeq(url, 1, 1) = <<"Chassis/">>
                    /\ SubSeq(url, 3, 4) = <<"/Sensors", "/">>
    THEN LET name == SubSeq(url, 5, Len(url)) IN
         [id |-> name, reading |-> Reading(name),
          reading_range_max |-> ReadingRangeMax(name)]
    ELSE [id |-> url, reading |-> None, reading_range_max |-> None]

\* Voltages::from(Sensor)
VoltagesFrom(t) == [name |-> t.id, reading_volts |-> t.reading]

\* Chassis/PDB_0 carries none of the PowerSupply fields.
PdbAsPowerSupply ==
    [last_power_output_watts |-> None, power_output_watts |-> None,
     power_capacity_watts |-> None, power_output_amps |-> None]

\* The GETs the loop body issues for one member of a Sensors collection, in
\* the order of its tests.
SensorGets(chassis_id, odata_id) ==
    LET hit(site, part) ==
            IF chassis_id = "PDB_0" /\ Contains(odata_id, <<part>>)
            THEN << [site |-> site, odata_id |-> odata_id] >> ELSE <<>>
    IN hit("hsc0_pwr", "HSC_0_Pwr") \o hit("hsc0_cur", "HSC_0_Cur")
       \o hit("hsc1_pwr", "HSC_1_Pwr") \o hit("hsc1_cur", "HSC_1_Cur")
       \o (IF Contains(odata_id, <<"Volt">>)
           THEN << [site |-> "volt", odata_id |-> odata_id] >> ELSE <<>>)

\* The GETs of the whole loop over sensors.members.
RECURSIVE SensorPlan(_, _)
SensorPlan(chassis_id, members) ==
    IF members = <<>> THEN <<>>
    ELSE SensorGets(chassis_id, Head(members)) \o SensorPlan(chassis_id, Tail(members))

\* ApplySensor with the current of HSC_1 written to the record of HSC_0.
ApplySensorSwapped(l, site, t) ==
    CASE site = "hsc0_pwr" ->
            [l EXCEPT !.hsc0.last_power_output_watts = t.reading,
                      !.hsc0.power_output_watts = t.reading,
                      !.hsc0.power_capacity_watts = t.reading_range_max]
      [] site = "hsc0_cur" -> [l EXCEPT !.hsc0.power_output_amps = t.reading]
      [] site = "hsc1_pwr" ->
            [l EXCEPT !.hsc1.last_power_output_watts = t.reading,
                      !.hsc1.power_output_watts = t.reading,
                      !.hsc1.power_capacity_watts = t.reading_range_max]
      [] site = "hsc1_cur" -> [l EXCEPT !.hsc0.power_output_amps = t.reading]
      [] site = "volt" -> [l EXCEPT !.voltages = Append(@, VoltagesFrom(t))]

\* What the answer t to a GET changes, by the place of the GET in the loop body.
ApplySensor(l, site, t) ==
    CASE site = "hsc0_pwr" ->
            [l EXCEPT !.hsc0.last_power_output_watts = t.reading,
                      !.hsc0.power_output_watts = t.reading,
                      !.hsc0.power_capacity_watts = t.reading_range_max]
      [] site = "hsc0_cur" -> [l EXCEPT !.hsc0.power_output_amps = t.reading]
      [] site = "hsc1_pwr" ->
            [l EXCEPT !.hsc1.last_power_output_watts = t.reading,
                      !.hsc1.power_output_watts = t.reading,
                      !.hsc1.power_capacity_watts = t.reading_range_max]
      [] site = "hsc1_cur" -> [l EXCEPT !.hsc1.power_output_amps = t.reading]
      [] site = "volt" -> [l EXCEPT !.voltages = Append(@, VoltagesFrom(t))]

\* The Power value the operation returns.
PowerOf(l) ==
    [id |-> "Power", name |-> "Power", power_control |-> <<>>,
     power_supplies |-> Some(<<l.hsc0, l.hsc1>>),
     voltages |-> Some(l.voltages),
     redundancy |-> None]

PowerLocals ==
    [hsc0 |-> PdbAsPowerSupply, hsc1 |-> PdbAsPowerSupply, voltages |-> <<>>,
     chassis_all |-> <<>>, c |-> 0, plan |-> <<>>, tries |-> 0]

\* The walk goes on with chassis number c of chassis_all, or the operation
\* returns after the last one.
PowerWalkFrom(l, c) ==
    IF c > Len(l.chassis_all)
    THEN loc' = l /\ Finish(Ok(PowerOf(l)), bmc)
    ELSE loc' = [l EXCEPT !.c = c] /\ Goto("power_chassis")

InvokeGetPowerMetrics ==
    Invoke("get_power_metrics", <<>>, PowerLocals, "power_pdb")

\* let (_, pdb): (_, PowerSupply) = self.s.client.get("Chassis/PDB_0").await?
PowerGetPdb ==
    /\ pc = "power_pdb"
    /\ \E o \in Outcomes :
        /\ ClientGet(ChassisUrl("PDB_0"), o)
        /\ IF o = "ok"
           THEN /\ loc' = [loc EXCEPT !.hsc0 = bmc.pdb, !.hsc1 = bmc.pdb]
                /\ Goto("power_chassis_all")
           ELSE /\ Finish(ErrorOf(o, ChassisUrl("PDB_0")), bmc)
                /\ UNCHANGED loc
    /\ UNCHANGED <<bmc, call>>

\* let chassis_all = self.s.get_chassis_all().await?
PowerGetChassisAll ==
    /\ pc = "power_chassis_all"
    /\ \E o \in Outcomes :
        /\ ClientGet(<<"Chassis">>, o)
        /\ IF o = "ok"
           THEN PowerWalkFrom([loc EXCEPT !.chassis_all = bmc.chassis_all], 1)
           ELSE /\ Finish(ErrorOf(o, <<"Chassis">>), bmc)
                /\ UNCHANGED loc
    /\ UNCHANGED <<bmc, call>>

\* GET Chassis/{chassis_id}; a chassis without Sensors is passed over.
PowerGetChassis ==
    /\ pc = "power_chassis"
    /\ LET chassis_id == loc.chassis_all[loc.c]
           url == ChassisUrl(chassis_id)
       IN \E o \in Outcomes :
            /\ ClientGet(url, o)
            /\ IF o = "ok"
               THEN IF ~bmc.chassis[chassis_id].sensors.some
                    THEN PowerWalkFrom(loc, loc.c + 1)
                    ELSE Goto("power_sensors") /\ UNCHANGED loc
               ELSE /\ Finish(ErrorOf(o, url), bmc)
                    /\ UNCHANGED loc
    /\ UNCHANGED <<bmc, call>>

\* GET Chassis/{chassis_id}/Sensors
PowerGetSensors ==
    /\ pc = "power_sensors"
    /\ LET chassis_id == loc.chassis_all[loc.c]
           url == SensorsUrl(chassis_id)
           plan == SensorPlan(chassis_id, bmc.chassis[chassis_id].sensors.val)
       IN \E o \in Outcomes :
            /\ ClientGet(url, o)
            /\ IF o = "ok"
               THEN IF plan = <<>>
                    THEN PowerWalkFrom(loc, loc.c + 1)
                    ELSE loc' = [loc EXCEPT !.plan = plan] /\ Goto("power_sensor")
               ELSE /\ Finish(ErrorOf(o, url), bmc)
                    /\ UNCHANGED loc
    /\ UNCHANGED <<bmc, call>>

\* The next GET of a sensor in the loop over sensors.members.
PowerGetSensor ==
    /\ pc = "power_sensor"
    /\ LET get == Head(loc.plan)
           url == Relative(get.odata_id)
           after == [ApplySensor(loc, get.site, SensorAt(url)) EXCEPT !.plan = Tail(@)]
       IN \E o \in Outcomes :
            /\ ClientGet(url, o)
            /\ IF o = "ok"
               THEN IF after.plan = <<>>
                    THEN PowerWalkFrom(after, loc.c + 1)
                    ELSE loc' = after /\ Goto("power_sensor")
               ELSE /\ Finish(ErrorOf(o, url), bmc)
                    /\ UNCHANGED loc
    /\ UNCHANGED <<bmc, call>>

NextPower ==
    \/ InvokeGetPowerMetrics
    \/ PowerGetPdb
    \/ PowerGetChassisAll
    \/ PowerGetChassis
    \/ PowerGetSensors
    \/ PowerGetSensor

\* The sublists of s, each in the order of s.
RECURSIVE SubLists(_)
SubLists(s) ==
    IF s = <<>> THEN {<<>>}
    ELSE LET rest == SubLists(Tail(s)) IN
         rest \cup {<<Head(s)>> \o r : r \in rest}

\* What a chassis can link to: no Sensors, or a Sensors collection listing
\* some of its sensors.
SensorLinks(chassis_id) ==
    {None} \cup {Some([i \in 1..Len(names) |-> SensorId(chassis_id, names[i])]) :
                    names \in SubLists(SensorNames(chassis_id))}

InitPower ==
    /\ \E chassis_all \in SubLists(ChassisIds) :
         \E chassis \in [{chassis_all[i] : i \in 1..Len(chassis_all)} ->
                            UNION {SensorLinks(id) : id \in {"PDB_0", "Chassis_0", "HGX_GPU_0"}}] :
            /\ \A id \in DOMAIN chassis : [sensors |-> chassis[id]].sensors \in SensorLinks(id)
            /\ bmc = [pdb |-> PdbAsPowerSupply,
                      chassis_all |-> chassis_all,
                      chassis |-> [id \in DOMAIN chassis |-> [sensors |-> chassis[id]]]]
    /\ Idle

SpecPower == InitPower /\ [][NextPower]_vars

(***************************************************************************)
(* get_power_metrics against a BMC whose PDB_0 lists one sensor under an   *)
(* odata_id that is any string over the tokens below.                      *)
(***************************************************************************)
IdTokens == {"/redfish", "/v1/", "HSC_0_Pwr", "Volt"}

InitUrl ==
    /\ \E n \in 0..MaxIdLen :
         \E odata_id \in [1..n -> IdTokens] :
            bmc = [pdb |-> PdbAsPowerSupply,
                   chassis_all |-> <<"PDB_0">>,
                   chassis |-> [id \in {"PDB_0"} |-> [sensors |-> Some(<<odata_id>>)]]]
    /\ Idle

SpecUrl == InitUrl /\ [][NextPower]_vars

(***************************************************************************)
(* GB200: update_firmware_multipart.                                       *)
(* The surroundings of the upload:                                         *)
(*   file_ok   the firmware file can be opened                             *)
(*   push_uri  UpdateService.MultipartHttpPushUri ("" when absent)         *)
(*   location  the Location header of the answer to the multipart POST     *)
(*   body      the body of that answer                                     *)
(***************************************************************************)
TaskUrl(id) == <<"/redfish", "/v1/", "TaskService/Tasks/", id>>

PushUris == {<<>>, <<"/redfish", "/v1/", "UpdateService/update-multipart">>}

Locations == {None, Some(TaskUrl("5"))}

\* Answers a BMC gives to the upload: a Task, a Redfish error object, an
\* empty object, and an empty body that is no JSON at all.
Bodies ==
    {[json |-> TRUE, fields |-> [Id |-> "JID_1234", TaskState |-> "Running"]],
     [json |-> TRUE, fields |-> [error |-> "Base.1.0.GeneralError"]],
     [json |-> TRUE, fields |-> [x \in {} |-> x]],
     [json |-> FALSE, fields |-> [x \in {} |-> x]]}

\* serde_json::from_str::<Task>(&body): a Task needs its Id.
ParseTask(body) ==
    IF body.json /\ "Id" \in DOMAIN body.fields
    THEN Ok([id |-> body.fields.Id])
    ELSE Err("serde", body)

Filenames == {"fw.bin"}

InvokeUpdateFirmwareMultipart ==
    \E filename \in Filenames, reboot \in BOOLEAN :
        Invoke("update_firmware_multipart", <<filename, reboot>>,
               [tries |-> 0, filename |-> filename, update_service |-> None],
               "fw_open")

\* File::open(&filename).await.map_err(FileError)?
FwOpenFile ==
    /\ pc = "fw_open"
    /\ IF bmc.file_ok
       THEN Goto("fw_update_service") /\ UNCHANGED reqs
       ELSE /\ reqs' = reqs
            /\ Finish(Err("FileError", "Could not open file: {e}"), bmc)
    /\ UNCHANGED <<bmc, call, loc>>

\* FwGetUpdateService without the test of the push URI.
FwGetUpdateServiceUntested ==
    /\ pc = "fw_update_service"
    /\ \E o \in Outcomes :
        /\ ClientGet(<<"UpdateService">>, o)
        /\ IF o # "ok"
           THEN Finish(ErrorOf(o, <<"UpdateService">>), bmc) /\ UNCHANGED loc
           ELSE /\ loc' = [loc EXCEPT !.update_service =
                              Some([multipart_http_push_uri |-> bmc.push_uri])]
                /\ Goto("fw_post")
    /\ UNCHANGED <<bmc, call>>

\* self.s.get_update_service().await? and the test of the push URI
FwGetUpdateService ==
    /\ pc = "fw_update_service"
    /\ \E o \in Outcomes :
        /\ ClientGet(<<"UpdateService">>, o)
        /\ IF o # "ok"
           THEN Finish(ErrorOf(o, <<"UpdateService">>), bmc) /\ UNCHANGED loc
           ELSE IF bmc.push_uri = <<>>
           THEN /\ Finish(Err("NotSupported",
                              <<"Host BMC does not support HTTP multipart push">>), bmc)
                /\ UNCHANGED loc
           ELSE /\ loc' = [loc EXCEPT !.update_service =
                              Some([multipart_http_push_uri |-> bmc.push_uri])]
                /\ Goto("fw_post")
    /\ UNCHANGED <<bmc, call>>

\* What the operation makes of the answer (_status_code, _loc, body).
TaskIdOf(push_uri, location, body) ==
    IF ParseTask(body).ok
    THEN Ok(ParseTask(body).val.id)
    ELSE Err("JsonDeserializeError", [url |-> push_uri, body |-> body])

\* req_update_firmware_multipart(...).await? and the parse of its body
FwPost ==
    /\ pc = "fw_post"
    /\ LET url == loc.update_service.val.multipart_http_push_uri
           parts == [file |-> loc.filename, UpdateParameters |-> "{}"]
       IN \E o \in Outcomes :
            /\ reqs' = Append(reqs, Wire("POST", url, Some(parts), o))
            /\ IF o = "ok"
               THEN Finish(TaskIdOf(url, bmc.location, bmc.body), bmc)
               ELSE Finish(ErrorOf(o, url), bmc)
    /\ UNCHANGED <<bmc, call, loc>>

NextFw ==
    \/ InvokeUpdateFirmwareMultipart
    \/ FwOpenFile
    \/ FwGetUpdateService
    \/ FwPost

InitFw ==
    /\ \E file_ok \in BOOLEAN, push_uri \in PushUris, location \in Locations, body \in Bodies :
          bmc = [file_ok |-> file_ok, push_uri |-> push_uri,
                 location |-> location, body |-> body]
    /\ Idle

SpecFw == InitFw /\ [][NextFw]_vars

(***************************************************************************)
(* Dispatch.  Most methods of a vendor backend consist of one call into    *)
(* the wrapped standard backend (self.s); GB200 answers some itself.       *)
(* The BMC of these operations:                                            *)
(*   vendor   which backend the client was built with                      *)
(*   lock     the sub-settings that make up lockdown                       *)
(*   store    the last write the BMC has accepted                          *)
(***************************************************************************)
UEFI_PASSWORD_NAME == "AdminPassword"

\* A method op of arity parameters whose body is the single call
\* self.s.to(...): pass[i] is the number of the parameter handed over in
\* position i, 0 standing for the constant UEFI_PASSWORD_NAME.
Fwd(op, arity, to, pass) == [op |-> op, arity |-> arity, to |-> to, pass |-> pass]

NvidiaForwards == {
    Fwd("change_password", 2, "change_password", <<1, 2>>),
     Fwd("get_firmware", 1, "get_firmware", <<1>>),
     Fwd("get_software_inventories", 0, "get_software_inventories", <<>>),
     Fwd("get_task", 1, "get_task", <<1>>), Fwd("get_power_state", 0, "get_power_state", <<>>),
     Fwd("get_power_metrics", 0, "get_power_metrics", <<>>), Fwd("power", 1, "power", <<1>>),
     Fwd("machine_setup", 0, "machine_setup", <<>>),
     Fwd("get_thermal_metrics", 0, "get_thermal_metrics", <<>>),
     Fwd("lockdown", 1, "lockdown", <<1>>), Fwd("lockdown_status", 0, "lockdown_status", <<>>),
     Fwd("setup_serial_console", 0, "setup_serial_console", <<>>),
     Fwd("serial_console_status", 0, "serial_console_status", <<>>),
     Fwd("get_boot_options", 0, "get_boot_options", <<>>),
     Fwd("get_boot_option", 1, "get_boot_option", <<1>>), Fwd("boot_once", 1, "boot_once", <<1>>),
     Fwd("boot_first", 1, "boot_first", <<1>>), Fwd("clear_tpm", 0, "clear_tpm", <<>>),
     Fwd("pcie_devices", 0, "pcie_devices", <<>>),
     Fwd("update_firmware", 1, "update_firmware", <<1>>), Fwd("bios", 0, "bios", <<>>),
     Fwd("pending", 0, "pending", <<>>), Fwd("clear_pending", 0, "clear_pending", <<>>),
     Fwd("get_system", 0, "get_system", <<>>), Fwd("get_secure_boot", 0, "get_secure_boot", <<>>),
     Fwd("disable_secure_boot", 0, "disable_secure_boot", <<>>),
     Fwd("get_chassises", 0, "get_chassises", <<>>), Fwd("get_chassis", 1, "get_chassis", <<1>>),
     Fwd("get_ethernet_interfaces", 0, "get_ethernet_interfaces", <<>>),
     Fwd("get_ethernet_interface", 1, "get_ethernet_interface", <<1>>)}

Gb200Forwards == {
    Fwd("create_user", 3, "create_user", <<1, 2, 3>>),
     Fwd("change_username", 2, "change_username", <<1, 2>>),
     Fwd("change_password", 2, "change_password", <<1, 2>>),
     Fwd("change_password_by_id", 2, "change_password_by_id", <<1, 2>>),
     Fwd("get_accounts", 0, "get_accounts", <<>>), Fwd("get_firmware", 1, "get_firmware", <<1>>),
     Fwd("get_software_inventories", 0, "get_software_inventories", <<>>),
     Fwd("get_tasks", 0, "get_tasks", <<>>), Fwd("get_task", 1, "get_task", <<1>>),
     Fwd("get_power_state", 0, "get_power_state", <<>>), Fwd("power", 1, "power", <<1>>),
     Fwd("bmc_reset", 0, "bmc_reset", <<>>), Fwd("chassis_reset", 2, "chassis_reset", <<1, 2>>),
     Fwd("get_drives_metrics", 0, "get_drives_metrics", <<>>),
     Fwd("lockdown_status", 0, "lockdown_status", <<>>),
     Fwd("setup_serial_console", 0, "setup_serial_console", <<>>),
     Fwd("serial_console_status", 0, "serial_console_status", <<>>),
     Fwd("get_boot_options", 0, "get_boot_options", <<>>),
     Fwd("get_boot_option", 1, "get_boot_option", <<1>>), Fwd("clear_tpm", 0, "clear_tpm", <<>>),
     Fwd("update_firmware", 1, "update_firmware", <<1>>),
     Fwd("get_update_service", 0, "get_update_service", <<>>), Fwd("bios", 0, "bios", <<>>),
     Fwd("pending", 0, "pending", <<>>), Fwd("clear_pending", 0, "clear_pending", <<>>),
     Fwd("get_system", 0, "get_system", <<>>), Fwd("get_secure_boot", 0, "get_secure_boot", <<>>),
     Fwd("enable_secure_boot", 0, "enable_secure_boot", <<>>),
     Fwd("disable_secure_boot", 0, "disable_secure_boot", <<>>),
     Fwd("add_secure_boot_certificate", 1, "add_secure_boot_certificate", <<1>>),
     Fwd("get_chassis_all", 0, "get_chassis_all", <<>>),
     Fwd("get_chassis", 1, "get_chassis", <<1>>),
     Fwd("get_chassis_network_adapters", 1, "get_chassis_network_adapters", <<1>>),
     Fwd("get_chassis_network_adapter", 2, "get_chassis_network_adapter", <<1, 2>>),
     Fwd("get_base_network_adapters", 1, "get_base_network_adapters", <<1>>),
     Fwd("get_base_network_adapter", 2, "get_base_network_adapter", <<1, 2>>),
     Fwd("get_manager_ethernet_interfaces", 0, "get_manager_ethernet_interfaces", <<>>),
     Fwd("get_manager_ethernet_interface", 1, "get_manager_ethernet_interface", <<1>>),
     Fwd("change_uefi_password", 2, "change_bios_password", <<0, 1, 2>>),
     Fwd("get_service_root", 0, "get_service_root", <<>>),
     Fwd("get_systems", 0, "get_systems", <<>>), Fwd("get_managers", 0, "get_managers", <<>>),
     Fwd("get_manager", 0, "get_manager", <<>>),
     Fwd("bmc_reset_to_defaults", 0, "bmc_reset_to_defaults", <<>>),
     Fwd("get_job_state", 1, "get_job_state", <<1>>),
     Fwd("get_collection", 1, "get_collection", <<1>>),
     Fwd("get_resource", 1, "get_resource", <<1>>),
     Fwd("get_base_mac_address", 0, "get_base_mac_address", <<>>),
     Fwd("lockdown_bmc", 1, "lockdown_bmc", <<1>>),
     Fwd("is_ipmi_over_lan_enabled", 0, "is_ipmi_over_lan_enabled", <<>>),
     Fwd("enable_ipmi_over_lan", 1, "enable_ipmi_over_lan", <<1>>),
     Fwd("update_firmware_simple_update", 3, "update_firmware_simple_update", <<1, 2, 3>>),
     Fwd("enable_rshim_bmc", 0, "enable_rshim_bmc", <<>>),
     Fwd("clear_nvram", 0, "clear_nvram", <<>>)}

Forwards(vendor) == IF vendor = "gb200" THEN Gb200Forwards ELSE NvidiaForwards

\* StdArgs with one value handed over whatever the caller passed.
StdArgsFixed(f, args) == [i \in 1..Len(f.pass) |-> "a"]

\* The arguments of the call into self.s.
StdArgs(f, args) ==
    [i \in 1..Len(f.pass) |-> IF f.pass[i] = 0 THEN UEFI_PASSWORD_NAME ELSE args[f.pass[i]]]

EnabledDisabled == {"Enabled", "Disabled"}
ArgValues == {"a", "b"}
TargetOps == {"lockdown", "lockdown_bmc", "enable_ipmi_over_lan"}
ArgDomain(op) == IF op \in TargetOps THEN EnabledDisabled ELSE ArgValues

(***************************************************************************)
(* The standard backend.  An operation is one request that names the       *)
(* operation and its arguments; a write that is accepted is kept by the    *)
(* BMC, a read returns what the BMC holds.  lockdown writes each of its    *)
(* sub-settings in turn and stops at the first failure.                    *)
(***************************************************************************)
StdWrites ==
    {"create_user", "change_username", "change_password", "change_password_by_id",
     "power", "bmc_reset", "chassis_reset", "machine_setup", "lockdown",
     "setup_serial_console", "boot_once", "boot_first", "clear_tpm", "update_firmware",
     "clear_pending", "enable_secure_boot", "disable_secure_boot",
     "add_secure_boot_certificate", "change_bios_password", "bmc_reset_to_defaults",
     "lockdown_bmc", "enable_ipmi_over_lan", "update_firmware_simple_update",
     "enable_rshim_bmc", "clear_nvram"}

LockSteps == <<"kcs", "bios">>

StdSteps(op) == IF op = "lockdown" THEN Len(LockSteps) ELSE 1

StdUrl(op, args) == <<op>> \o args

StdRequest(verb, url, body, o) ==
    [verb |-> verb, url |-> url, body |-> body, try |-> 1, outcome |-> o]

RECURSIVE StdLockdown(_, _, _, _)
StdLockdown(target, b, os, i) ==
    IF i > Len(LockSteps) THEN [reqs |-> <<>>, res |-> Ok(<<>>), bmc |-> b]
    ELSE LET url == <<"lockdown", LockSteps[i]>>
             rq == StdRequest("PATCH", url, Some(target), os[i])
         IN IF os[i] # "ok"
            THEN [reqs |-> <<rq>>, res |-> ErrorOf(os[i], url), bmc |-> b]
            ELSE LET rest == StdLockdown(target,
                                 [b EXCEPT !.lock[LockSteps[i]] = target], os, i + 1)
                 IN [rest EXCEPT !.reqs = <<rq>> \o @]

\* Status: Enabled or Disabled when every sub-setting is, Partial otherwise;
\* the message details the sub-settings.
StatusOf(lock) ==
    [status |-> IF \A k \in DOMAIN lock : lock[k] = "Enabled" THEN "Enabled"
                ELSE IF \A k \in DOMAIN lock : lock[k] = "Disabled" THEN "Disabled"
                ELSE "Partial",
     message |-> lock]

\* The standard operation op called with args on a BMC in state b, its
\* requests ending as os says: the requests, the result and the BMC after.
StdRun(op, args, b, os) ==
    IF op = "lockdown" THEN StdLockdown(args[1], b, os, 1)
    ELSE LET url == StdUrl(op, args)
             write == op \in StdWrites
             rq == StdRequest(IF write THEN "PATCH" ELSE "GET", url,
                              IF write THEN Some(args) ELSE None, os[1])
         IN IF os[1] # "ok"
            THEN [reqs |-> <<rq>>, res |-> ErrorOf(os[1], url), bmc |-> b]
            ELSE IF write
            THEN [reqs |-> <<rq>>, res |-> Ok(<<>>),
                  bmc |-> [b EXCEPT !.store = Some([op |-> op, args |-> args])]]
            ELSE [reqs |-> <<rq>>, bmc |-> b,
                  res |-> Ok(IF op = "lockdown_status" THEN StatusOf(b.lock)
                             ELSE [of |-> url, store |-> b.store, lock |-> b.lock])]

DispatchLocals == [before |-> bmc, tries |-> 0]

InvokeForward ==
    \E f \in Forwards(bmc.vendor) :
        \E args \in [1..f.arity -> ArgDomain(f.op)] :
            Invoke(f.op, args,
                   [to |-> f.to, args |-> StdArgs(f, args), before |-> bmc, tries |-> 0],
                   "forward")

\* Forward with the errors of the standard backend reclassified as NotSupported.
ForwardRenamingErrors ==
    /\ pc = "forward"
    /\ \E os \in [1..StdSteps(loc.to) -> Outcomes] :
         LET r == StdRun(loc.to, loc.args, bmc, os)
         IN /\ reqs' = r.reqs
            /\ bmc' = r.bmc
            /\ Finish(IF r.res.ok THEN r.res ELSE Err("NotSupported", r.res.err.detail), r.bmc)
    /\ UNCHANGED <<call, loc>>

\* self.s.to(args), with its .await on GB200: the result is returned as it is.
Forward ==
    /\ pc = "forward"
    /\ \E os \in [1..StdSteps(loc.to) -> Outcomes] :
         LET r == StdRun(loc.to, loc.args, bmc, os)
         IN /\ reqs' = r.reqs
            /\ bmc' = r.bmc
            /\ Finish(r.res, r.bmc)
    /\ UNCHANGED <<call, loc>>

\* GB200: lockdown(_target)
InvokeGb200Lockdown ==
    /\ bmc.vendor = "gb200"
    /\ \E _target \in EnabledDisabled :
          Invoke("lockdown", <<_target>>, DispatchLocals, "gb200_lockdown")

Flip(e) == IF e = "Enabled" THEN "Disabled" ELSE "Enabled"

\* A lockdown that flips a sub-setting each time it is applied.
Gb200LockdownToggling ==
    /\ pc = "gb200_lockdown"
    /\ bmc' = [bmc EXCEPT !.lock["kcs"] = Flip(@)]
    /\ UNCHANGED <<call, loc, reqs>>
    /\ Finish(Ok(<<>>), bmc')

\* OpenBMC does not provide a lockdown: Ok(()) and nothing else.
Gb200Lockdown ==
    /\ pc = "gb200_lockdown"
    /\ UNCHANGED <<bmc, call, loc, reqs>>
    /\ Finish(Ok(<<>>), bmc)

\* The methods of GB200 that answer NotSupported, with their arity.
Gb200NotSupportedMessage ==
    [get_gpu_sensors |-> "GB200 has no sensors under Chassis/HGX_GPU_#/Sensors/",
     get_system_ethernet_interfaces |-> "GB200 doesn't have Systems EthernetInterface",
     get_system_ethernet_interface |-> "GB200 doesn't have Systems EthernetInterface",
     get_network_device_function |->
         "GB200 doesn't have Device Functions in NetworkAdapters yet",
     get_network_device_functions |->
         "GB200 doesn't have Device Functions in NetworkAdapters yet"]

Gb200NotSupportedArity ==
    [get_gpu_sensors |-> 0, get_system_ethernet_interfaces |-> 0,
     get_system_ethernet_interface |-> 1, get_network_device_function |-> 3,
     get_network_device_functions |-> 1]

InvokeGb200NotSupported ==
    /\ bmc.vendor = "gb200"
    /\ \E op \in DOMAIN Gb200NotSupportedArity :
        \E args \in [1..Gb200NotSupportedArity[op] -> ArgValues] :
            Invoke(op, args, DispatchLocals, "gb200_not_supported")

\* Gb200NotSupported with the resource asked for before the answer is given.
Gb200NotSupportedAfterGet ==
    /\ pc = "gb200_not_supported"
    /\ \E o \in Outcomes : ClientGet(StdUrl(call.op, call.arg), o)
    /\ Finish(Err("NotSupported", Gb200NotSupportedMessage[call.op]), bmc)
    /\ UNCHANGED <<bmc, call, loc>>

\* Err(RedfishError::NotSupported(...)) and nothing else.
Gb200NotSupported ==
    /\ pc = "gb200_not_supported"
    /\ UNCHANGED <<bmc, call, loc, reqs>>
    /\ Finish(Err("NotSupported", Gb200NotSupportedMessage[call.op]), bmc)

\* The client, having applied lockdown, makes its next call.
Again ==
    /\ pc = "done"
    /\ call.op = "lockdown"
    /\ Len(hist) < MaxCalls
    /\ pc' = "idle"
    /\ UNCHANGED <<bmc, call, loc, reqs, res, hist>>

NextDispatch ==
    \/ InvokeForward
    \/ Forward
    \/ InvokeGb200Lockdown
    \/ Gb200Lockdown
    \/ InvokeGb200NotSupported
    \/ Gb200NotSupported
    \/ Again

InitDispatch ==
    /\ \E vendor \in Vendors, lock \in [{"kcs", "bios"} -> EnabledDisabled] :
          bmc = [vendor |-> vendor, lock |-> lock, store |-> None]
    /\ Idle

SpecDispatch == InitDispatch /\ [][NextDispatch]_vars

(***************************************************************************)
(* Task polling: {sleep, get_task} repeated until the Task is in a         *)
(* terminal state or the caller's timeout has passed.  The BMC:            *)
(*   now    the ticks that have passed                                     *)
(*   due    per Task id, the tick at which the BMC ends the Task           *)
(*   final  the terminal state the BMC ends its Tasks in                   *)
(***************************************************************************)
TerminalStates == {"Completed", "Cancelled", "Exception"}

\* The Task the BMC serves under id at this moment.
TaskAt(b, id) ==
    [id |-> id,
     task_state |-> IF b.now >= b.due[id] THEN b.final ELSE "Running",
     messages |-> IF b.now >= b.due[id] /\ b.final = "Exception"
                  THEN <<"Base.1.0.GeneralError">> ELSE <<>>]

InvokePollTask ==
    \E id \in ArgValues, interval \in 1..2, timeout \in 1..MaxTicks :
        Invoke("poll_task", <<id, interval, timeout>>,
               [id |-> id, tries |-> 0, interval |-> interval, timeout |-> timeout,
                started |-> bmc.now],
               "poll_sleep")

PollSleep ==
    /\ pc = "poll_sleep"
    /\ bmc' = [bmc EXCEPT !.now = @ + loc.interval]
    /\ Goto("poll_get_task")
    /\ UNCHANGED <<call, loc, reqs>>

\* get_task(id) of GB200, which hands it to the standard backend, and what
\* the loop makes of the Task.
PollGetTask ==
    /\ pc = "poll_get_task"
    /\ LET f == CHOOSE g \in Gb200Forwards : g.op = "get_task"
           args == StdArgs(f, <<loc.id>>)
           url == StdUrl(f.to, args)
           task == TaskAt(bmc, args[1])
       IN \E o \in Outcomes :
            /\ reqs' = Append(reqs, StdRequest("GET", url, None, o))
            /\ IF o # "ok" THEN Finish(ErrorOf(o, url), bmc)
               ELSE IF task.task_state = "Exception"
               THEN Finish(Err("RemoteError", task.messages), bmc)
               ELSE IF task.task_state \in TerminalStates THEN Finish(Ok(task), bmc)
               ELSE IF bmc.now - loc.started >= loc.timeout
               THEN Finish(Err("Timeout", url), bmc)
               ELSE Goto("poll_sleep")
    /\ UNCHANGED <<bmc, call, loc>>

NextPoll ==
    \/ InvokePollTask
    \/ PollSleep
    \/ PollGetTask

InitPoll ==
    /\ \E due \in [ArgValues -> 0..(MaxTicks + 2)], final \in TerminalStates :
          bmc = [now |-> 0, due |-> due, final |-> final]
    /\ Idle

\* The caller's executor keeps running the loop.
SpecPoll == InitPoll /\ [][NextPoll]_vars /\ WF_vars(NextPoll)

(***************************************************************************)
(* GB200: get_port, with the requests client.get puts on the wire: the     *)
(* GET is retried on a transport error or a 5xx while retries are left; a  *)
(* 401 makes the transport create a new session, once, and issue the GET   *)
(* again.                                                                  *)
(***************************************************************************)
PortUrl(chassis_id, network_adapter, id) ==
    <<"Chassis/", chassis_id, "/NetworkAdapters/", network_adapter, "/Ports/", id>>

SessionsUrl == <<"SessionService/Sessions">>

InvokeGetPort ==
    \E chassis_id \in ArgValues, network_adapter \in ArgValues, id \in ArgValues :
        Invoke("get_port", <<chassis_id, network_adapter, id>>,
               [tries |-> 0, url |-> PortUrl(chassis_id, network_adapter, id),
                sessions |-> 0],
               "transport_get")

\* One attempt of the GET.
TransportGetLoginAgain ==
    /\ pc = "transport_get"
    /\ \E o \in Outcomes \cup {"unauthorized"} :
        /\ reqs' = Append(reqs, Wire("GET", loc.url, None, o))
        /\ IF o = "ok"
           THEN Finish(Ok([odata_id |-> loc.url]), bmc) /\ UNCHANGED loc
           ELSE IF o = "unauthorized"
           THEN IF loc.sessions <= MaxRetry
                THEN Goto("transport_login") /\ UNCHANGED loc
                ELSE Finish(Err("Authentication", loc.url), bmc) /\ UNCHANGED loc
           ELSE IF loc.tries < MaxRetry
           THEN Goto(pc) /\ loc' = [loc EXCEPT !.tries = @ + 1]
           ELSE Finish(ErrorOf(o, loc.url), bmc) /\ UNCHANGED loc
    /\ UNCHANGED <<bmc, call>>

TransportGet ==
    /\ pc = "transport_get"
    /\ \E o \in Outcomes \cup {"unauthorized"} :
        /\ reqs' = Append(reqs, Wire("GET", loc.url, None, o))
        /\ IF o = "ok"
           THEN Finish(Ok([odata_id |-> loc.url]), bmc) /\ UNCHANGED loc
           ELSE IF o = "unauthorized"
           THEN IF loc.sessions = 0
                THEN Goto("transport_login") /\ UNCHANGED loc
                ELSE Finish(Err("Authentication", loc.url), bmc) /\ UNCHANGED loc
           ELSE IF loc.tries < MaxRetry
           THEN Goto(pc) /\ loc' = [loc EXCEPT !.tries = @ + 1]
           ELSE Finish(ErrorOf(o, loc.url), bmc) /\ UNCHANGED loc
    /\ UNCHANGED <<bmc, call>>

\* The reauthentication: one POST that creates a session.
TransportLogin ==
    /\ pc = "transport_login"
    /\ \E o \in Outcomes \cup {"unauthorized"} :
        /\ reqs' = Append(reqs, Wire("POST", SessionsUrl, None, o))
        /\ loc' = [loc EXCEPT !.sessions = @ + 1]
        /\ IF o = "ok" THEN Goto("transport_get")
           ELSE IF o = "unauthorized" THEN Finish(Err("Authentication", SessionsUrl), bmc)
           ELSE Finish(ErrorOf(o, SessionsUrl), bmc)
    /\ UNCHANGED <<bmc, call>>

NextAuth ==
    \/ InvokeGetPort
    \/ TransportGet
    \/ TransportLogin

InitAuth ==
    /\ bmc = [vendor |-> "gb200"]
    /\ Idle

SpecAuth == InitAuth /\ [][NextAuth]_vars

(***************************************************************************)
(* GB200: machine_setup, set_boot_order_dpu_first, machine_setup_status.   *)
(* The BMC of the boot operations, with                                    *)
(*   secure_boot  SecureBoot.SecureBootEnable, which may be absent         *)
(***************************************************************************)
\* boot_interface_mac as callers pass it.
Macs == {None, Some("a0:88:c2"), Some("A088C2"), Some("00:11:22")}

\* x.replace(':', "").to_uppercase()
NormalMac(x) ==
    CASE x = "a0:88:c2" -> "A088C2"
      [] x = "A088C2" -> "A088C2"
      [] x = "00:11:22" -> "001122"

SecureBootUrl == <<"Systems/", SystemId, "/SecureBoot">>

InvokeMachineSetup ==
    \E boot_interface_mac \in Macs :
        Invoke("machine_setup", boot_interface_mac,
               [tries |-> 0, address |-> boot_interface_mac], "disable_secure_boot")

\* self.disable_secure_boot().await?
DisableSecureBoot ==
    /\ pc = "disable_secure_boot"
    /\ \E o \in Outcomes :
        /\ reqs' = Append(reqs, Wire("PATCH", SecureBootUrl,
                                     Some([SecureBootEnable |-> FALSE]), o))
        /\ IF o = "ok"
           THEN /\ bmc' = [bmc EXCEPT !.secure_boot = Some(FALSE)]
                /\ loc' = [loc EXCEPT !.tries = 0]
                /\ Goto("set_boot_order_dpu_first")
           ELSE IF o = "transport" /\ loc.tries < MaxRetry
           THEN /\ loc' = [loc EXCEPT !.tries = @ + 1]
                /\ Goto(pc)
                /\ UNCHANGED bmc
           ELSE /\ Finish(ErrorOf(o, SecureBootUrl), bmc)
                /\ UNCHANGED <<bmc, loc>>
    /\ UNCHANGED call

\* set_boot_order_dpu_first(address), up to its first request.
SetBootOrderDpuFirst ==
    /\ pc = "set_boot_order_dpu_first"
    /\ IF ~loc.address.some
       THEN /\ reqs' = reqs
            /\ Finish(Err("NotSupported",
                  "set_dpu_first_boot_order without mac address is not possible on GB200 since NetworkDeviceFunctions and PCIeDevices are missing"),
                  bmc)
            /\ UNCHANGED loc
       ELSE LET mac_address == NormalMac(loc.address.val)
                boot_option_name ==
                    BootOptionNameToString("Http") \o <<" (MAC:", mac_address, ")">>
            IN /\ loc' = WithFirstLocals("Http", "DisplayName", Some(boot_option_name))
               /\ Goto("get_system")
               /\ UNCHANGED reqs
    /\ UNCHANGED <<bmc, call>>

InvokeMachineSetupStatus ==
    Invoke("machine_setup_status", <<>>, NoLocals, "get_secure_boot")

\* self.get_secure_boot().await? and the diffs made of it.
MachineSetupStatus ==
    /\ pc = "get_secure_boot"
    /\ \E o \in Outcomes :
        /\ ClientGet(SecureBootUrl, o)
        /\ IF o # "ok" THEN Finish(ErrorOf(o, SecureBootUrl), bmc)
           ELSE LET sb == [secure_boot_enable |-> bmc.secure_boot]
                    enabled == IF sb.secure_boot_enable.some
                               THEN sb.secure_boot_enable.val ELSE FALSE
                    diffs == IF enabled
                             THEN <<[key |-> "SecureBoot", expected |-> "false",
                                     actual |-> "true"]>>
                             ELSE <<>>
                IN Finish(Ok([is_done |-> diffs = <<>>, diffs |-> diffs]), bmc)
    /\ UNCHANGED <<bmc, call, loc>>

\* The caller, machine_setup having succeeded, makes its next call.
SetupAgain ==
    /\ pc = "done"
    /\ call.op = "machine_setup"
    /\ res.ok
    /\ Len(hist) < MaxCalls
    /\ pc' = "idle"
    /\ UNCHANGED <<bmc, call, loc, reqs, res, hist>>

NextSetup ==
    \/ InvokeMachineSetup
    \/ DisableSecureBoot
    \/ SetBootOrderDpuFirst
    \/ GetSystem
    \/ GetBootOption
    \/ ChangeBootOrder
    \/ InvokeMachineSetupStatus
    \/ MachineSetupStatus
    \/ SetupAgain

InitSetup ==
    /\ \E n \in 0..MaxBoot :
         \E opt \in [1..n -> BootKinds \ {"lower"}] :
         \E secure_boot \in {None, Some(TRUE), Some(FALSE)} :
            bmc = [vendor |-> "gb200",
                   order |-> [i \in 1..n |-> i],
                   opt |-> opt,
                   override |-> NoOverride,
                   policy |-> PriorPolicy,
                   uefi |-> "",
                   secure_boot |-> secure_boot]
    /\ Idle

SpecSetup == InitSetup /\ [][NextSetup]_vars

(***************************************************************************)
(* GB200: get_thermal_metrics.  The BMC of this walk, per chassis id:      *)
(*   thermal  none, or the ThermalSubsystem: the readings of its           *)
(*            ThermalMetrics (which may be absent) and the members of its  *)
(*            LeakDetectors collection                                     *)
(*   sensors  none, or the members of its Sensors collection               *)
(* The operation keeps the GETs it still has to issue in plan, in the      *)
(* order of its loops.                                                     *)
(***************************************************************************)
\* Temperature::from(t), of a ThermalMetrics reading and of a Sensor alike.
TemperatureFrom(t) == [name |-> t.id, reading_celsius |-> t.reading]

\* The locals once the GET item has been answered: what it adds to the
\* lists, and the GETs that follow from it put in front of the plan.
ThermalAfter(l, item) ==
    LET id == item.chassis_id
        chassis == bmc.chassis[id]
        get(site, url) == [site |-> site, chassis_id |-> id, url |-> url]
        each(site, members, part) ==
            LET hits == SelectSeq(members, LAMBDA m : Contains(m, part))
            IN [i \in 1..Len(hits) |-> get(site, Relative(hits[i]))]
        rest == Tail(l.plan)
    IN CASE item.site = "chassis" ->
              [l EXCEPT !.plan =
                  (IF chassis.thermal.some
                   THEN <<get("metrics", <<"Chassis/", id, "/ThermalSubsystem/ThermalMetrics">>),
                          get("leaks", <<"Chassis/", id,
                                         "/ThermalSubsystem/LeakDetection/LeakDetectors">>)>>
                   ELSE <<>>)
                  \o (IF chassis.sensors.some THEN <<get("sensors", SensorsUrl(id))>> ELSE <<>>)
                  \o (IF id = "Chassis_0" THEN <<get("fans", SensorsUrl(id))>> ELSE <<>>)
                  \o rest]
         [] item.site = "metrics" ->
              LET temp == chassis.thermal.val.readings
                  found == IF temp.some THEN temp.val ELSE <<>>
              IN [l EXCEPT !.plan = rest,
                           !.temperatures =
                               @ \o [i \in 1..Len(found) |-> TemperatureFrom(found[i])]]
         [] item.site = "leaks" ->
              [l EXCEPT !.plan = each("leak", chassis.thermal.val.leaks, <<>>) \o rest]
         [] item.site = "leak" ->
              [l EXCEPT !.plan = rest, !.leak_detectors = Append(@, SensorAt(item.url))]
         [] item.site = "sensors" ->
              [l EXCEPT !.plan = each("temp", chassis.sensors.val, <<"Temp">>) \o rest]
         [] item.site = "temp" ->
              [l EXCEPT !.plan = rest,
                        !.temperatures = Append(@, TemperatureFrom(SensorAt(item.url)))]
         [] item.site = "fans" ->
              [l EXCEPT !.plan = each("fan", chassis.sensors.val, <<"FAN">>) \o rest]
         [] item.site = "fan" ->
              [l EXCEPT !.plan = rest, !.fans = Append(@, SensorAt(item.url))]

\* let mut temperatures = Vec::new(), fans, leak_detectors alike; no GET yet.
ThermalLocals ==
    [tries |-> 0, plan |-> <<>>, temperatures |-> <<>>, leak_detectors |-> <<>>, fans |-> <<>>]

InvokeGetThermalMetrics ==
    Invoke("get_thermal_metrics", <<>>, ThermalLocals, "thermal_chassis_all")

\* The walk goes on with the next GET of the plan, or the operation returns
\* the Thermal it has assembled.
ThermalGoOn(l) ==
    IF l.plan = <<>>
    THEN /\ loc' = l
         /\ Finish(Ok([temperatures |-> l.temperatures, fans |-> l.fans,
                       leak_detectors |-> Some(l.leak_detectors)]), bmc)
    ELSE loc' = l /\ Goto("thermal_get")

\* ThermalGetChassisAll with the first chassis left out of the walk.
ThermalGetChassisAllButFirst ==
    /\ pc = "thermal_chassis_all"
    /\ \E o \in Outcomes :
        /\ ClientGet(<<"Chassis">>, o)
        /\ IF o = "ok"
           THEN ThermalGoOn([loc EXCEPT !.plan =
                    [i \in 1..(Len(bmc.chassis_all) - 1) |->
                        [site |-> "chassis", chassis_id |-> bmc.chassis_all[i + 1],
                         url |-> ChassisUrl(bmc.chassis_all[i + 1])]]])
           ELSE Finish(ErrorOf(o, <<"Chassis">>), bmc) /\ UNCHANGED loc
    /\ UNCHANGED <<bmc, call>>

\* let chassis_all = self.s.get_chassis_all().await?
ThermalGetChassisAll ==
    /\ pc = "thermal_chassis_all"
    /\ \E o \in Outcomes :
        /\ ClientGet(<<"Chassis">>, o)
        /\ IF o = "ok"
           THEN ThermalGoOn([loc EXCEPT !.plan =
                    [i \in 1..Len(bmc.chassis_all) |->
                        [site |-> "chassis", chassis_id |-> bmc.chassis_all[i],
                         url |-> ChassisUrl(bmc.chassis_all[i])]]])
           ELSE Finish(ErrorOf(o, <<"Chassis">>), bmc) /\ UNCHANGED loc
    /\ UNCHANGED <<bmc, call>>

\* The next self.s.client.get(&url).await? of the walk.  The BMC has no
\* Chassis_0/Sensors to answer with when Chassis_0 links to none.
ThermalGet ==
    /\ pc = "thermal_get"
    /\ LET item == Head(loc.plan)
       IN \E o \in Outcomes :
            /\ o = "ok" =>
                  ~(item.site = "fans" /\ ~bmc.chassis[item.chassis_id].sensors.some)
            /\ ClientGet(item.url, o)
            /\ IF o = "ok"
               THEN ThermalGoOn(ThermalAfter(loc, item))
               ELSE Finish(ErrorOf(o, item.url), bmc) /\ UNCHANGED loc
    /\ UNCHANGED <<bmc, call>>

NextThermal ==
    \/ InvokeGetThermalMetrics
    \/ ThermalGetChassisAll
    \/ ThermalGet

InitThermal ==
    /\ LET names(id) == IF id = "Chassis_0"
                        THEN << <<"Temp", "_0">>, <<"FAN", "_0">>, <<"FAN", "_1">> >>
                        ELSE IF id = "PDB_0"
                        THEN << <<id, "_", "Temp">>, <<id, "_", "Volt">> >>
                        ELSE << <<id, "_", "Temp">> >>
           links(id, at, ns) ==
               [i \in 1..Len(ns) |-> RedfishPrefix \o <<"Chassis/", id, at, "/">> \o ns[i]]
           subsystem(id) ==
               Some([readings |-> Some(<<[id |-> <<id, "_", "Inlet">>, reading |-> Some(30)],
                                         [id |-> <<id, "_", "Outlet">>, reading |-> None]>>),
                     leaks |-> links(id, "/ThermalSubsystem/LeakDetection/LeakDetectors",
                                     << <<"Leak", "_0">>, <<"Leak", "_1">> >>)])
           thermals(id) ==
               {None, subsystem(id)}
               \cup (IF id = "Chassis_0" THEN {Some([readings |-> None, leaks |-> <<>>])} ELSE {})
           sensors(id) ==
               {None} \cup {Some(links(id, "/Sensors", ns)) : ns \in SubLists(names(id)) \ {<<>>}}
                      \cup (IF id = "Chassis_0" THEN {Some(<<>>)} ELSE {})
           of(id, chassis_all) ==
               IF \E i \in 1..Len(chassis_all) : chassis_all[i] = id
               THEN {[thermal |-> th, sensors |-> se] : th \in thermals(id), se \in sensors(id)}
               ELSE {[thermal |-> None, sensors |-> None]}
       IN \E chassis_all \in SubLists(ChassisIds) :
            \E c1 \in of(ChassisIds[1], chassis_all), c2 \in of(ChassisIds[2], chassis_all),
               c3 \in of(ChassisIds[3], chassis_all) :
                bmc = [chassis_all |-> chassis_all,
                       chassis |-> (ChassisIds[1] :> c1) @@ (ChassisIds[2] :> c2)
                                   @@ (ChassisIds[3] :> c3)]
    /\ Idle

SpecThermal == InitThermal /\ [][NextThermal]_vars

(***************************************************************************)
(* GB200: pcie_devices.  The BMC of this walk, per chassis id (a string of *)
(* tokens):                                                                *)
(*   pcie_devices  none, or the odata_id of its PCIeDevices collection     *)
(*   devices       the devices of that collection, in the order of its     *)
(*                 members, each with its odata_id and what the BMC        *)
(*                 reports as Id, Status (with its State) and Manufacturer *)
(* The operation keeps the GETs it still has to issue in plan, in the      *)
(* order of its loops, and the devices it has kept in out.                 *)
(***************************************************************************)
\* str::to_lowercase on the states a BMC reports.
ToLowercase(s) ==
    [i \in 1..Len(s) |-> CASE s[i] = "Enabled" -> "enabled"
                           [] s[i] = "Disabled" -> "disabled"
                           [] s[i] = "Standby" -> "standby"
                           [] s[i] = "Offline" -> "offline"
                           [] OTHER -> s[i]]

\* a.manufacturer.partial_cmp(&b.manufacturer) is not Greater: None is before
\* every Some, and names compare as strings.
ManufacturerLe(a, b) ==
    LET rank(name) == CASE name = "Broadcom" -> 1 [] name = "Mellanox" -> 2
                        [] name = "NVIDIA" -> 3
    IN \/ ~a.manufacturer.some
       \/ b.manufacturer.some /\ rank(a.manufacturer.val) <= rank(b.manufacturer.val)

\* What out.sort_unstable_by(..) can leave in out: the devices of out in
\* non-decreasing order of manufacturer, equal ones in any order.
SortUnstableBy(out) ==
    LET n == Len(out)
        perms == {f \in [1..n -> 1..n] : \A i, j \in 1..n : i # j => f[i] # f[j]}
    IN {[i \in 1..n |-> out[f[i]]] : f \in
            {g \in perms : \A i \in 1..(n - 1) : ManufacturerLe(out[g[i]], out[g[i + 1]])}}

\* The locals once the GET item has been answered, and whether the answer
\* makes the operation panic: what the answer adds to out, and the GETs
\* that follow from it put in front of the plan.
PcieAfter(l, item) ==
    LET id == item.chassis_id
        chassis == bmc.chassis[id]
        rest == Tail(l.plan)
        get(site, url) == [site |-> site, chassis_id |-> id, url |-> url]
    IN CASE item.site = "chassis" ->
              [l EXCEPT !.plan =
                  (IF chassis.pcie_devices.some
                   THEN <<get("collection", Relative(chassis.pcie_devices.val))>>
                   ELSE <<>>) \o rest]
         [] item.site = "collection" ->
              [l EXCEPT !.plan =
                  [i \in 1..Len(chassis.devices) |->
                      get("device", Relative(chassis.devices[i].odata_id))] \o rest]
         [] item.site = "device" ->
              LET p == CHOOSE d \in {chassis.devices[i] : i \in 1..Len(chassis.devices)} :
                           Relative(d.odata_id) = item.url
              IN IF ~p.id.some \/ ~p.status.some
                 THEN [l EXCEPT !.plan = rest]
                 ELSE IF ~p.status.val.state.some
                 THEN [l EXCEPT !.panic = TRUE]
                 ELSE IF ~Contains(ToLowercase(p.status.val.state.val), <<"enabled">>)
                 THEN [l EXCEPT !.plan = rest]
                 ELSE [l EXCEPT !.plan = rest, !.out = Append(@, p)]

\* let mut out = Vec::new(); no GET yet, no panic.
PcieLocals == [tries |-> 0, plan |-> <<>>, out |-> <<>>, panic |-> FALSE]

InvokePcieDevices ==
    Invoke("pcie_devices", <<>>, PcieLocals, "pcie_chassis_all")

\* The walk goes on with the next GET of the plan; after the last one the
\* operation sorts out and returns it.  An unwrap() of an absent State ends
\* the invocation without a return.
PcieGoOn(l) ==
    /\ loc' = l
    /\ IF l.panic THEN pc' = "panicked" /\ UNCHANGED <<res, hist>>
       ELSE IF l.plan = <<>>
       THEN \E sorted \in SortUnstableBy(l.out) : Finish(Ok(sorted), bmc)
       ELSE Goto("pcie_get")

\* let chassis_all = self.s.get_chassis_all().await?, and the chassis whose
\* id contains "BMC" left out.
PcieGetChassisAll ==
    /\ pc = "pcie_chassis_all"
    /\ \E o \in Outcomes :
        /\ ClientGet(<<"Chassis">>, o)
        /\ IF o = "ok"
           THEN LET walked == SelectSeq(bmc.chassis_all, LAMBDA id : ~Contains(id, <<"BMC">>))
                IN PcieGoOn([loc EXCEPT !.plan =
                        [i \in 1..Len(walked) |->
                            [site |-> "chassis", chassis_id |-> walked[i],
                             url |-> <<"Chassis/">> \o walked[i]]]])
           ELSE Finish(ErrorOf(o, <<"Chassis">>), bmc) /\ UNCHANGED loc
    /\ UNCHANGED <<bmc, call>>

\* The next GET of the walk.  A failure is returned, except that of the GET
\* of a PCIeDevices collection, after which the walk goes on with the next
\* chassis.
PcieGet ==
    /\ pc = "pcie_get"
    /\ LET item == Head(loc.plan)
       IN \E o \in Outcomes :
            /\ ClientGet(item.url, o)
            /\ IF o = "ok"
               THEN PcieGoOn(PcieAfter(loc, item))
               ELSE IF item.site = "collection"
               THEN PcieGoOn([loc EXCEPT !.plan = Tail(@)])
               ELSE Finish(ErrorOf(o, item.url), bmc) /\ UNCHANGED loc
    /\ UNCHANGED <<bmc, call>>

NextPcie ==
    \/ InvokePcieDevices
    \/ PcieGetChassisAll
    \/ PcieGet

InitPcie ==
    /\ LET ids == << <<"Chassis_0">>, <<"HGX_", "BMC", "_0">>, <<"CPU_0">> >>
           at(id) == RedfishPrefix \o <<"Chassis/">> \o id \o <<"/PCIeDevices">>
           enabled == Some([state |-> Some(<<"Enabled">>)])
           reports ==
               {[id |-> Some("dev"), status |-> enabled, manufacturer |-> Some("NVIDIA")],
                [id |-> Some("dev"), status |-> enabled, manufacturer |-> Some("Mellanox")],
                [id |-> Some("dev"), status |-> enabled, manufacturer |-> None],
                [id |-> None, status |-> enabled, manufacturer |-> Some("NVIDIA")],
                [id |-> Some("dev"), status |-> Some([state |-> Some(<<"Disabled">>)]),
                 manufacturer |-> Some("Broadcom")],
                [id |-> Some("dev"), status |-> Some([state |-> Some(<<"Standby", "Offline">>)]),
                 manufacturer |-> Some("NVIDIA")],
                [id |-> Some("dev"), status |-> Some([state |-> None]),
                 manufacturer |-> Some("NVIDIA")],
                [id |-> Some("dev"), status |-> None, manufacturer |-> Some("NVIDIA")]}
           device(id, n, r) ==
               [odata_id |-> at(id) \o <<"/", n>>, id |-> r.id, status |-> r.status,
                manufacturer |-> r.manufacturer]
           devices(id) ==
               IF id = <<"Chassis_0">>
               THEN {<<>>} \cup {<<device(id, "0", r)>> : r \in reports}
                           \cup {<<device(id, "0", r), device(id, "1", q)>> :
                                    r \in reports, q \in reports}
               ELSE IF id = <<"CPU_0">>
               THEN {<<device(id, "0", r)>> : r \in reports}
               ELSE {<<device(id, "0", r)>> : r \in {q \in reports : q.manufacturer = None}}
           links(id) ==
               {[pcie_devices |-> None, devices |-> <<>>]}
               \cup {[pcie_devices |-> Some(at(id)), devices |-> ds] : ds \in devices(id)}
           of(id, chassis_all) ==
               IF \E i \in 1..Len(chassis_all) : chassis_all[i] = id
               THEN links(id) ELSE {[pcie_devices |-> None, devices |-> <<>>]}
       IN \E chassis_all \in SubLists(ids) :
            \E c1 \in of(ids[1], chassis_all), c2 \in of(ids[2], chassis_all),
               c3 \in of(ids[3], chassis_all) :
                bmc = [chassis_all |-> chassis_all,
                       chassis |-> (ids[1] :> c1) @@ (ids[2] :> c2) @@ (ids[3] :> c3)]
    /\ Idle

SpecPcie == InitPcie /\ [][NextPcie]_vars

(***************************************************************************)
(* GB200: get_system_event_log, the method of the Redfish trait and the    *)
(* inherent method of the same name.  The BMC holds the members of the     *)
(* collection Systems/{id}/LogServices/SEL/Entries in sel.                 *)
(***************************************************************************)
\* A caller invokes <Bmc as Redfish>::get_system_event_log.
InvokeGetSystemEventLog ==
    Invoke("get_system_event_log", <<>>, NoLocals, "redfish_get_system_event_log")

\* The method of the trait calling itself.
RedfishGetSystemEventLogItself ==
    /\ pc = "redfish_get_system_event_log"
    /\ Goto("redfish_get_system_event_log")
    /\ UNCHANGED <<bmc, call, loc, reqs>>

\* self.get_system_event_log().await in the method of the trait: the method
\* call resolves to the inherent method, which comes before a trait's.
RedfishGetSystemEventLog ==
    /\ pc = "redfish_get_system_event_log"
    /\ Goto("get_system_event_log")
    /\ UNCHANGED <<bmc, call, loc, reqs>>

\* Bmc::get_system_event_log: the GET of the entries and their members.
GetSystemEventLog ==
    /\ pc = "get_system_event_log"
    /\ LET url == <<"Systems/", SystemId, "/LogServices/SEL/Entries">>
       IN \E o \in Outcomes :
            /\ ClientGet(url, o)
            /\ Finish(IF o = "ok" THEN Ok(bmc.sel) ELSE ErrorOf(o, url), bmc)
    /\ UNCHANGED <<bmc, call, loc>>

NextSel ==
    \/ InvokeGetSystemEventLog
    \/ RedfishGetSystemEventLog
    \/ GetSystemEventLog

InitSel ==
    /\ \E n \in 0..MaxEntries :
         \E sel \in [1..n -> {"fan failure", "power on", "thermal trip"}] :
            bmc = [sel |-> sel]
    /\ Idle

SpecSel == InitSel /\ [][NextSel]_vars /\ WF_vars(NextSel)

(***************************************************************************)
(* Properties of the boot and settings operations.                         *)
(***************************************************************************)
Last(s) == s[Len(s)]

Without(s, x) == SelectSeq(s, LAMBDA y : y # x)

IsPermutationOf(s, t) ==
    /\ Len(s) = Len(t)
    /\ \A x \in {s[i] : i \in 1..Len(s)} \cup {t[i] : i \in 1..Len(t)} :
         Len(SelectSeq(s, LAMBDA y : y = x)) = Len(SelectSeq(t, LAMBDA y : y = x))

\* The BootOrder the invocation found on the BMC.
BootOrderRead == [i \in 1..Len(bmc.opt) |-> i]

\* The boot option behind member is one boot_first(target) looks for.
MatchesTarget(member, target) ==
    IsMatch(BootOptionAt(member), BootFirstLocals(target).match_field,
            BootFirstLocals(target).name_str)

SomeMatch(target) ==
    \E i \in 1..Len(BootOrderRead) : MatchesTarget(BootOrderRead[i], target)

Patches == {i \in 1..Len(reqs) : reqs[i].verb = "PATCH"}
PatchCalls == {i \in Patches : reqs[i].try = 1}

\* C1: whenever boot_first(target) PATCHes a BootOrder and some option of the
\* order L it read matches the target, the PATCHed list is a permutation of L,
\* starts with a matching option, and keeps all other elements of L in their
\* relative order.
C1_PatchedOrderIsStableMoveToFront ==
    (call.op = "boot_first" /\ Patches # {} /\ SomeMatch(call.arg)) =>
        \A i \in Patches :
            LET P == reqs[i].body.Boot.BootOrder IN
                /\ IsPermutationOf(P, BootOrderRead)
                /\ MatchesTarget(P[1], call.arg)
                /\ Without(P, P[1]) = Without(BootOrderRead, P[1])

\* C2: when boot_first(target) has returned with every request answered and no
\* option of the BootOrder matches the target, the result is the error NotFound.
C2_NoMatchIsNotFound ==
    (/\ pc = "done"
     /\ call.op = "boot_first"
     /\ \A i \in 1..Len(reqs) : reqs[i].outcome = "ok"
     /\ BootOrderRead # <<>>
     /\ ~SomeMatch(call.arg)) =>
        (~res.ok /\ res.err.kind = "NotFound")

MutatingOps == {"change_boot_order", "boot_first", "boot_once",
                "set_machine_password_policy", "change_uefi_password"}

\* C4: in one invocation of a mutating operation the backend calls PATCH at
\* most once, no PATCH follows a PATCH that failed with an HTTP error, and that
\* failure is what the operation returns.
C4_PatchNotReissuedAfterHttpError ==
    call.op \in MutatingOps =>
        /\ Cardinality(PatchCalls) <= 1
        /\ \A i \in Patches :
             reqs[i].outcome = "http" =>
                /\ i = Len(reqs)
                /\ pc = "done"
                /\ res = Err("RemoteError", reqs[i].url)

C4_Witness ==
    /\ pc = "done"
    /\ call.op = "boot_first"
    /\ Patches # {}
    /\ Last(reqs).outcome = "http"
    /\ ~res.ok

\* C10: boot_first issues GET system, then one GET per member of the BootOrder
\* in order, then the PATCH of Systems/{id}/Settings carrying a BootOrder; a
\* request is issued only after all earlier ones were answered, a failed GET
\* ends the invocation without a PATCH, and a successful invocation has
\* called PATCH exactly once.
C10_GetsThenOnePatch ==
    call.op = "boot_first" =>
        LET n == Len(BootOrderRead) IN
        /\ \A i \in 1..Len(reqs) :
            /\ i = 1 => reqs[i].verb = "GET" /\ reqs[i].url = SystemUrl
            /\ (1 < i /\ i <= n + 1) =>
                  /\ reqs[i].verb = "GET"
                  /\ reqs[i].url = BootOptionUrl(BootOrderRead[i - 1])
            /\ i > n + 1 =>
                  /\ reqs[i].verb = "PATCH"
                  /\ reqs[i].url = SettingsUrl
                  /\ DOMAIN reqs[i].body = {"Boot"}
                  /\ DOMAIN reqs[i].body.Boot = {"BootOrder"}
                  /\ IsPermutationOf(reqs[i].body.Boot.BootOrder, BootOrderRead)
            /\ (reqs[i].verb = "GET" /\ reqs[i].outcome # "ok") =>
                  i = Len(reqs) /\ pc = "done" /\ ~res.ok
        /\ Cardinality(PatchCalls) <= 1
        /\ (pc = "done" /\ res.ok) => Cardinality(PatchCalls) = 1

C10_Witness ==
    /\ pc = "done"
    /\ call.op = "boot_first"
    /\ res.ok
    /\ Len(reqs) = Len(BootOrderRead) + 2
    /\ Last(reqs).body.Boot.BootOrder # BootOrderRead

(***************************************************************************)
(* Properties of get_power_metrics.                                        *)
(***************************************************************************)
\* C3: no request of get_power_metrics has a URL that begins with
\* "/redfish/v1/", whatever odata_id the BMC lists for a sensor.
C3_NoRequestKeepsThePrefix ==
    \A i \in 1..Len(reqs) : ~StartsWith(reqs[i].url, RedfishPrefix)

\* The sensors chassis_id lists, by name, in the order listed.
ListedNames(chassis_id) ==
    IF bmc.chassis[chassis_id].sensors.some
    THEN SelectSeq(SensorNames(chassis_id),
                   LAMBDA n : \E i \in 1..Len(bmc.chassis[chassis_id].sensors.val) :
                                bmc.chassis[chassis_id].sensors.val[i] = SensorId(chassis_id, n))
    ELSE <<>>

\* PDB_0 is walked and lists the sensor name.
PdbLists(name) ==
    /\ \E i \in 1..Len(bmc.chassis_all) : bmc.chassis_all[i] = "PDB_0"
    /\ \E i \in 1..Len(ListedNames("PDB_0")) : ListedNames("PDB_0")[i] = name

\* The reading of PDB_0's sensor name, or what Chassis/PDB_0 gave when PDB_0
\* does not list it.
FromPdb(name, reading, otherwise) == IF PdbLists(name) THEN reading ELSE otherwise

\* One Voltage per listed sensor with "Volt" in its name, chassis by chassis.
RECURSIVE VoltagesOf(_)
VoltagesOf(ids) ==
    IF ids = <<>> THEN <<>>
    ELSE LET volt == SelectSeq(ListedNames(Head(ids)), LAMBDA n : Contains(n, <<"Volt">>))
         IN [i \in 1..Len(volt) |-> [name |-> volt[i], reading_volts |-> Reading(volt[i])]]
            \o VoltagesOf(Tail(ids))

\* C8: a successful get_power_metrics returns exactly two PowerSupply records,
\* the first with the watts, capacity and amps of PDB_0's HSC_0_Pwr and
\* HSC_0_Cur sensors, the second with those of HSC_1_Pwr and HSC_1_Cur, and
\* one Voltage record per listed sensor whose odata_id contains "Volt", over
\* every chassis of get_chassis_all that has a Sensors collection.
C8_TwoSuppliesAndEveryVoltage ==
    (pc = "done" /\ call.op = "get_power_metrics" /\ res.ok) =>
        LET S == res.val.power_supplies.val
            pwr0 == <<"HSC_0_Pwr">>
            cur0 == <<"HSC_0_Cur">>
            pwr1 == <<"HSC_1_Pwr">>
            cur1 == <<"HSC_1_Cur">>
        IN /\ res.val.power_supplies.some
           /\ Len(S) = 2
           /\ S[1].power_output_watts = FromPdb(pwr0, Reading(pwr0), bmc.pdb.power_output_watts)
           /\ S[1].last_power_output_watts =
                 FromPdb(pwr0, Reading(pwr0), bmc.pdb.last_power_output_watts)
           /\ S[1].power_capacity_watts =
                 FromPdb(pwr0, ReadingRangeMax(pwr0), bmc.pdb.power_capacity_watts)
           /\ S[1].power_output_amps = FromPdb(cur0, Reading(cur0), bmc.pdb.power_output_amps)
           /\ S[2].power_output_watts = FromPdb(pwr1, Reading(pwr1), bmc.pdb.power_output_watts)
           /\ S[2].last_power_output_watts =
                 FromPdb(pwr1, Reading(pwr1), bmc.pdb.last_power_output_watts)
           /\ S[2].power_capacity_watts =
                 FromPdb(pwr1, ReadingRangeMax(pwr1), bmc.pdb.power_capacity_watts)
           /\ S[2].power_output_amps = FromPdb(cur1, Reading(cur1), bmc.pdb.power_output_amps)
           /\ res.val.voltages = Some(VoltagesOf(bmc.chassis_all))

C8_Witness ==
    /\ pc = "done"
    /\ call.op = "get_power_metrics"
    /\ res.ok
    /\ bmc.chassis_all = ChassisIds
    /\ \A n \in {<<"HSC_0_Pwr">>, <<"HSC_0_Cur">>, <<"HSC_1_Pwr">>, <<"HSC_1_Cur">>} : PdbLists(n)
    /\ res.val.power_supplies.val[2].power_output_amps = Some(19)
    /\ Len(res.val.voltages.val) = 4

(***************************************************************************)
(* Properties of update_firmware_multipart.                                *)
(***************************************************************************)
\* The Task id a Location header names, if it is a Task URL.
TaskIdOfLocation(location) ==
    IF location.some /\ Len(location.val) = 4 /\ SubSeq(location.val, 1, 3) = SubSeq(TaskUrl(""), 1, 3)
    THEN Some(location.val[4]) ELSE None

Posted == reqs # <<>> /\ Last(reqs).verb = "POST" /\ Last(reqs).outcome = "ok"

\* C9: after a successful multipart POST the operation returns the Task id of
\* the body when the body parses as a Task, or else the Task id the Location
\* header names; it fails, with JsonDeserialize carrying the push URL and the
\* body, only when neither yields a Task id.
C9_TaskIdFromBodyOrLocation ==
    (pc = "done" /\ call.op = "update_firmware_multipart" /\ Posted) =>
        IF ParseTask(bmc.body).ok
        THEN res = Ok(bmc.body.fields.Id)
        ELSE IF TaskIdOfLocation(bmc.location).some
        THEN res = Ok(TaskIdOfLocation(bmc.location).val)
        ELSE res = Err("JsonDeserializeError", [url |-> bmc.push_uri, body |-> bmc.body])

(***************************************************************************)
(* Properties of the dispatch.                                             *)
(***************************************************************************)
\* C5: when lockdown(target) has returned Ok and the same lockdown(target)
\* is applied again at once and returns Ok, the BMC is left as the first
\* call left it, on GB200 and on NVIDIA generic, for Enabled and Disabled.
C5_LockdownTwiceIsLockdownOnce ==
    \A i \in 1..(Len(hist) - 1) :
        (/\ hist[i].call.op = "lockdown"
         /\ hist[i + 1].call = hist[i].call
         /\ hist[i].res.ok
         /\ hist[i + 1].res.ok)
        => hist[i + 1].bmc = hist[i].bmc

C5_Witness ==
    /\ Len(hist) = 2
    /\ bmc.vendor = "nvidia"
    /\ hist[1].call = [op |-> "lockdown", arg |-> <<"Enabled">>]
    /\ hist[2].call = hist[1].call
    /\ hist[1].res.ok /\ hist[2].res.ok
    /\ Len(hist[2].reqs) = Len(LockSteps)
    /\ \A k \in DOMAIN bmc.lock : bmc.lock[k] = "Enabled"

\* The methods a vendor backend hands to the standard operation of the same
\* name.
NotOverridden(vendor) == {f \in Forwards(vendor) : f.to = f.op}

\* C6: a call of an operation the vendor backend does not override puts on
\* the wire the requests, returns the result (errors as they are) and leaves
\* the BMC as the standard operation of that name does, called with the same
\* arguments on the same BMC.
C6_NotOverriddenIsStandard ==
    (pc = "done" /\ \E f \in NotOverridden(bmc.vendor) : f.op = call.op) =>
        \E os \in [1..StdSteps(call.op) -> Outcomes] :
            LET r == StdRun(call.op, call.arg, loc.before, os)
            IN reqs = r.reqs /\ res = r.res /\ bmc = r.bmc

C6_Witness ==
    /\ pc = "done"
    /\ bmc.vendor = "gb200"
    /\ call = [op |-> "change_username", arg |-> <<"a", "b">>]
    /\ res = Err("RemoteError", <<"change_username", "a", "b">>)
    /\ Len(reqs) = 1

\* C7: on GB200 the five operations return NotSupported (the two about the
\* system's Ethernet interfaces with the message "GB200 doesn't have Systems
\* EthernetInterface") whatever their arguments and the BMC, put no request
\* on the wire and leave the BMC as it was.
C7_Gb200NotSupportedWithoutRequest ==
    (/\ pc = "done"
     /\ bmc.vendor = "gb200"
     /\ call.op \in {"get_system_ethernet_interface", "get_system_ethernet_interfaces",
                     "get_network_device_function", "get_network_device_functions",
                     "get_gpu_sensors"})
    => /\ ~res.ok
       /\ res.err.kind = "NotSupported"
       /\ call.op \in {"get_system_ethernet_interface", "get_system_ethernet_interfaces"}
             => res.err.detail = "GB200 doesn't have Systems EthernetInterface"
       /\ reqs = <<>>
       /\ bmc = loc.before

C7_Witness ==
    /\ pc = "done"
    /\ bmc.vendor = "gb200"
    /\ call = [op |-> "get_network_device_function", arg |-> <<"a", "b", "a">>]
    /\ res.err.kind = "NotSupported"
    /\ bmc.lock["kcs"] = "Enabled"

(***************************************************************************)
(* Properties of task polling.                                             *)
(***************************************************************************)
AllAnswered == \A i \in 1..Len(reqs) : reqs[i].outcome = "ok"

\* The result comes from a Task in a terminal state.
EndedByTask ==
    \/ res.ok /\ res.val.task_state \in TerminalStates
    \/ ~res.ok /\ res.err.kind = "RemoteError" /\ res.err.detail = <<"Base.1.0.GeneralError">>

\* C11: the polling loop returns.  When every fetch is answered, it returns
\* the terminal Task (its messages as an error for Exception) at a tick t with
\* N <= t <= N + interval, N being the tick at which the BMC ends the Task,
\* provided that tick is not after the timeout; and it returns Timeout, never
\* a non-terminal Task, only once the timeout has passed.
C11_PollingReturnsAtTerminalState ==
    /\ <>(pc = "done")
    /\ [](pc = "done" /\ call.op = "poll_task" /\ AllAnswered =>
            LET N == bmc.due[loc.id]
                t == bmc.now
            IN /\ EndedByTask \/ res = Err("Timeout", <<"get_task", loc.id>>)
               /\ EndedByTask => N <= t /\ t <= N + loc.interval
               /\ ~EndedByTask => t < N /\ t - loc.started >= loc.timeout
               /\ N + loc.interval <= loc.timeout => EndedByTask)

C11_Witness ==
    /\ pc = "done"
    /\ call.op = "poll_task"
    /\ AllAnswered
    /\ Len(reqs) = 3
    /\ loc.interval = 1
    /\ bmc.due[loc.id] = 3
    /\ res.ok /\ res.val.task_state = "Completed"

(***************************************************************************)
(* Properties of the transport's reauthentication.                         *)
(***************************************************************************)
SessionPosts == {i \in 1..Len(reqs) : reqs[i].verb = "POST" /\ reqs[i].url = SessionsUrl}
Unauthorized == {i \in 1..Len(reqs) : reqs[i].verb = "GET" /\ reqs[i].outcome = "unauthorized"}

\* C12: a GET puts at most one session-creation POST on the wire, and only
\* right after the first 401; the GET is issued again right after a created
\* session; with 401, session created, 200 the GET succeeds on exactly these
\* three requests; a second 401 is the last request and the result is an
\* Authentication error.
C12_OneReauthenticationOneRetry ==
    /\ Cardinality(SessionPosts) <= 1
    /\ Cardinality(Unauthorized) <= 2
    /\ \A i \in SessionPosts : i > 1 /\ (i - 1) \in Unauthorized
    /\ pc = "done" =>
        /\ \A i \in SessionPosts :
              reqs[i].outcome = "ok" => i < Len(reqs) /\ reqs[i + 1].verb = "GET"
        /\ (Len(reqs) >= 3 /\ reqs[1].outcome = "unauthorized" /\ reqs[2].outcome = "ok"
               /\ reqs[3].outcome = "ok")
             => Len(reqs) = 3 /\ res = Ok([odata_id |-> loc.url])
        /\ Cardinality(Unauthorized) = 2
             => Last(reqs).outcome = "unauthorized" /\ res = Err("Authentication", loc.url)

C12_Witness ==
    /\ pc = "done"
    /\ Cardinality(Unauthorized) = 2
    /\ Cardinality(SessionPosts) = 1
    /\ res = Err("Authentication", loc.url)

(***************************************************************************)
(* Properties of machine_setup and machine_setup_status.                   *)
(***************************************************************************)
\* C13: when machine_setup(mac) has succeeded and is run again at once with
\* the same mac and succeeds, the BMC (secure boot and BootOrder) is as the
\* first run left it.
C13_MachineSetupTwiceIsOnce ==
    \A i \in 1..(Len(hist) - 1) :
        (/\ hist[i].call.op = "machine_setup"
         /\ hist[i + 1].call = hist[i].call
         /\ hist[i].res.ok
         /\ hist[i + 1].res.ok)
        => /\ hist[i + 1].bmc.secure_boot = hist[i].bmc.secure_boot
           /\ hist[i + 1].bmc.order = hist[i].bmc.order

\* What machine_setup sets up: secure boot is not enabled and the first boot
\* option is the HTTP boot option of the DPU.
SetupInEffect ==
    /\ ~(bmc.secure_boot.some /\ bmc.secure_boot.val)
    /\ bmc.order # <<>>
    /\ bmc.opt[bmc.order[1]] = "http"

\* C14: on a BMC that reports SecureBootEnable and has boot options,
\* machine_setup_status returns no diffs exactly when the setup is in effect,
\* and is_done says whether there are no diffs.
C14_NoDiffsIffSetupInEffect ==
    (/\ pc = "done" /\ call.op = "machine_setup_status" /\ res.ok
     /\ bmc.secure_boot.some /\ bmc.order # <<>>) =>
        /\ (res.val.diffs = <<>>) <=> SetupInEffect
        /\ res.val.is_done <=> (res.val.diffs = <<>>)

\* What lockdown_status reports on a BMC in state b.
LockdownStatusOn(b) == StdRun("lockdown_status", <<>>, b, <<"ok">>).res.val.status

\* C15: when lockdown_status reports Partial and lockdown(target) is then
\* called and returns Ok, lockdown_status reports the target.
C15_LockdownLeavesPartial ==
    (/\ pc = "done" /\ call.op = "lockdown" /\ res.ok
     /\ LockdownStatusOn(loc.before) = "Partial")
    => LockdownStatusOn(bmc) = call.arg[1]

\* The earliest member of the BootOrder read that matches the target.
FirstMatch(target) ==
    BootOrderRead[CHOOSE i \in 1..Len(BootOrderRead) :
                     /\ MatchesTarget(BootOrderRead[i], target)
                     /\ \A j \in 1..(i - 1) : ~MatchesTarget(BootOrderRead[j], target)]

\* C17: when boot_first(target) PATCHes a BootOrder and options of the order
\* it read match the target, the list it PATCHes starts with the earliest of
\* them.
C17_FirstMatchWins ==
    (call.op = "boot_first" /\ SomeMatch(call.arg)) =>
        \A i \in Patches : reqs[i].body.Boot.BootOrder[1] = FirstMatch(call.arg)

(***************************************************************************)
(* Properties of get_thermal_metrics.                                      *)
(***************************************************************************)
\* The sequences of ss one after the other.
RECURSIVE Flatten(_)
Flatten(ss) == IF ss = <<>> THEN <<>> ELSE Head(ss) \o Flatten(Tail(ss))

\* The resources behind those members of a collection whose odata_id
\* contains part.
MembersWith(members, part) ==
    LET hits == SelectSeq(members, LAMBDA m : Contains(m, part))
    IN [i \in 1..Len(hits) |-> SensorAt(Relative(hits[i]))]

\* C18: a get_thermal_metrics that succeeds returns, chassis by chassis in
\* the order of get_chassis_all: as temperatures the ThermalMetrics readings
\* of each chassis that has a ThermalSubsystem followed by one record per
\* member containing "Temp" of its Sensors collection if it has one; as
\* leak detectors the LeakDetectors members of each chassis that has a
\* ThermalSubsystem; and as fans exactly the members of Chassis_0/Sensors
\* containing "FAN", none when Chassis_0 is not listed.
C18_ThermalAssembly ==
    (pc = "done" /\ call.op = "get_thermal_metrics" /\ res.ok) =>
        LET all == bmc.chassis_all
            of(id) == bmc.chassis[id]
            readings(id) ==
                IF of(id).thermal.some /\ of(id).thermal.val.readings.some
                THEN of(id).thermal.val.readings.val ELSE <<>>
            temps(id) ==
                readings(id)
                \o (IF of(id).sensors.some THEN MembersWith(of(id).sensors.val, <<"Temp">>)
                    ELSE <<>>)
            leaks(id) ==
                IF of(id).thermal.some THEN MembersWith(of(id).thermal.val.leaks, <<>>)
                ELSE <<>>
            listed == \E i \in 1..Len(all) : all[i] = "Chassis_0"
        IN /\ res.val.temperatures =
                 Flatten([i \in 1..Len(all) |->
                            [j \in 1..Len(temps(all[i])) |-> TemperatureFrom(temps(all[i])[j])]])
           /\ res.val.leak_detectors = Some(Flatten([i \in 1..Len(all) |-> leaks(all[i])]))
           /\ res.val.fans =
                 (IF listed THEN MembersWith(of("Chassis_0").sensors.val, <<"FAN">>) ELSE <<>>)

\* Every chassis is walked, each with a ThermalSubsystem; Chassis_0 lists a
\* temperature sensor between two fans.
C18_Witness ==
    /\ pc = "done"
    /\ call.op = "get_thermal_metrics"
    /\ res.ok
    /\ bmc.chassis_all = ChassisIds
    /\ Len(res.val.fans) = 2
    /\ Len(res.val.leak_detectors.val) = 6
    /\ Len(res.val.temperatures) = 9
    /\ res.val.temperatures[6].name = <<"Temp", "_0">>

(***************************************************************************)
(* Properties of pcie_devices.                                             *)
(***************************************************************************)
\* The devices of the PCIeDevices collections of the listed chassis whose
\* id does not contain "BMC", in the order of the walk.
Discovered ==
    LET all == bmc.chassis_all
    IN Flatten([i \in 1..Len(all) |->
                  IF Contains(all[i], <<"BMC">>) THEN <<>> ELSE bmc.chassis[all[i]].devices])

IsEnabled(d) == d.status.some /\ d.status.val.state = Some(<<"Enabled">>)

Returned == {res.val[i] : i \in 1..Len(res.val)}

\* C19: a pcie_devices that returns a list returns exactly the devices whose
\* State is Enabled of the PCIeDevices collections of the chassis whose id
\* does not contain "BMC": each once, no device of a BMC chassis, no device
\* in another state, and every Enabled device of those chassis.
C19_ExactlyTheEnabledDevices ==
    (pc = "done" /\ call.op = "pcie_devices" /\ res.ok) =>
        /\ Returned = {d \in {Discovered[i] : i \in 1..Len(Discovered)} : IsEnabled(d)}
        /\ Len(res.val) = Cardinality(Returned)

\* C20: the list pcie_devices returns is in non-decreasing order of
\* manufacturer, and devices with equal manufacturer are in the order in
\* which the walk discovered them.
C20_SortedAndStable ==
    (pc = "done" /\ call.op = "pcie_devices" /\ res.ok) =>
        \A i, j \in 1..Len(res.val) :
            i < j =>
                /\ ManufacturerLe(res.val[i], res.val[j])
                /\ res.val[i].manufacturer = res.val[j].manufacturer =>
                      \E m, n \in 1..Len(Discovered) :
                          m < n /\ Discovered[m] = res.val[i] /\ Discovered[n] = res.val[j]

(***************************************************************************)
(* Failing sub-requests of the composite operations.                       *)
(***************************************************************************)
\* C16: in get_power_metrics, get_thermal_metrics and pcie_devices a
\* sub-request that fails is the last request of the operation, and the
\* operation returns its failure as the error.
C16_FailureReturnedAndLast ==
    call.op \in {"get_power_metrics", "get_thermal_metrics", "pcie_devices"} =>
        \A i \in 1..Len(reqs) :
            reqs[i].outcome # "ok" =>
                /\ i = Len(reqs)
                /\ pc = "done"
                /\ res = ErrorOf(reqs[i].outcome, reqs[i].url)

(***************************************************************************)
(* Preconditions of the upload of update_firmware_multipart.               *)
(***************************************************************************)
\* C21: update_firmware_multipart POSTs only when the firmware file could
\* be opened and UpdateService, read before, reports a MultipartHttpPushUri
\* that is not empty; when the file cannot be opened it returns a FileError
\* without any request, and when the push URI is empty it returns
\* NotSupported after the GET alone.
C21_PostOnlyWithFileAndPushUri ==
    call.op = "update_firmware_multipart" =>
        /\ \A i \in 1..Len(reqs) :
              reqs[i].verb = "POST" =>
                  /\ bmc.file_ok
                  /\ bmc.push_uri # <<>>
                  /\ reqs[i].url = bmc.push_uri
                  /\ i = 2
                  /\ reqs[1].verb = "GET" /\ reqs[1].url = <<"UpdateService">>
                  /\ reqs[1].outcome = "ok"
        /\ pc = "done" /\ ~bmc.file_ok =>
              /\ reqs = <<>>
              /\ res = Err("FileError", "Could not open file: {e}")
        /\ pc = "done" /\ bmc.file_ok /\ bmc.push_uri = <<>>
              /\ Len(reqs) > 0 /\ reqs[1].outcome = "ok" =>
              /\ Len(reqs) = 1
              /\ res = Err("NotSupported", <<"Host BMC does not support HTTP multipart push">>)

\* The file opens and UpdateService answers with an empty push URI.
C21_Witness ==
    /\ pc = "done"
    /\ call.op = "update_firmware_multipart"
    /\ bmc.file_ok
    /\ bmc.push_uri = <<>>
    /\ Len(reqs) = 1
    /\ reqs[1].outcome = "ok"
    /\ ~res.ok /\ res.err.kind = "NotSupported"

(***************************************************************************)
(* Properties of boot_once.                                                *)
(***************************************************************************)
\* C22: for each target, boot_once issues nothing but its PATCH, called once
\* and not preceded by a GET, whose body sets Boot.BootSourceOverrideEnabled
\* to Once and Boot.BootSourceOverrideTarget to Pxe, Hdd or UefiHttp for the
\* targets Pxe, HardDisk and UefiHttp; the BootOrder stays what it was.
C22_BootOnceIsOnePatch ==
    call.op = "boot_once" =>
        LET mapped == CASE call.arg = "Pxe" -> "Pxe"
                        [] call.arg = "HardDisk" -> "Hdd"
                        [] call.arg = "UefiHttp" -> "UefiHttp"
        IN /\ \A i \in 1..Len(reqs) :
                /\ reqs[i].verb = "PATCH"
                /\ reqs[i].body = [Boot |-> [BootSourceOverrideEnabled |-> "Once",
                                             BootSourceOverrideTarget |-> mapped]]
           /\ Cardinality(PatchCalls) <= 1
           /\ pc = "done" => Cardinality(PatchCalls) = 1
           /\ bmc.order = BootOrderRead

C22_Witness ==
    /\ pc = "done"
    /\ call.op = "boot_once"
    /\ call.arg = "HardDisk"
    /\ res.ok
    /\ Len(reqs) = 1
    /\ bmc.order # <<>>
    /\ Last(reqs).body.Boot.BootSourceOverrideTarget = "Hdd"

\* C27: the URL boot_once PATCHes is the URL change_boot_order PATCHes,
\* Systems/{id}/Settings.
C27_BootOnceUrlIsSettingsUrl ==
    call.op = "boot_once" =>
        \A i \in Patches : reqs[i].url = SettingsUrl

(***************************************************************************)
(* machine_setup without a MAC address.                                    *)
(***************************************************************************)
\* C25: machine_setup called without a MAC address issues no mutating
\* request, and what it returns is the error NotSupported.
C25_NoMacNoMutation ==
    (call.op = "machine_setup" /\ ~call.arg.some) =>
        /\ Patches = {}
        /\ pc = "done" => ~res.ok /\ res.err.kind = "NotSupported"

(***************************************************************************)
(* Abnormal ends of pcie_devices.                                          *)
(***************************************************************************)
\* C26: pcie_devices never ends in a panic, whatever the BMC answers: an
\* invocation that has ended has returned a list of devices or an error.
C26_PcieDevicesNeverPanics ==
    call.op = "pcie_devices" =>
        /\ pc # "panicked"
        /\ pc = "done" => res.ok \/ res.err.kind \in {"Transport", "RemoteError"}

(***************************************************************************)
(* Properties of get_system_event_log.                                     *)
(***************************************************************************)
\* C28: get_system_event_log called through the Redfish trait returns; it
\* issues one request, the GET of Systems/{id}/LogServices/SEL/Entries, and
\* returns the members of that collection or the error of the GET.
C28_EventLogIsOneGet ==
    /\ <>(pc = "done")
    /\ [](call.op = "get_system_event_log" =>
            LET entries == <<"Systems/", SystemId, "/LogServices/SEL/Entries">>
            IN /\ Len(reqs) <= 1
               /\ \A i \in 1..Len(reqs) : reqs[i].verb = "GET" /\ reqs[i].url = entries
               /\ pc = "done" =>
                     /\ Len(reqs) = 1
                     /\ res = IF reqs[1].outcome = "ok" THEN Ok(bmc.sel)
                              ELSE ErrorOf(reqs[1].outcome, entries))

C28_Witness ==
    /\ pc = "done"
    /\ call.op = "get_system_event_log"
    /\ res.ok
    /\ Len(res.val) = 2
    /\ res.val[1] # res.val[2]

(***************************************************************************)
(* boot_first applied twice.                                               *)
(***************************************************************************)
\* C24: a boot_first(target) invoked right after a boot_first(target) that
\* succeeded PATCHes the BootOrder the first one produced.
C24_BootFirstTwiceIsOnce ==
    (/\ Len(hist) = 2
     /\ hist[1].call.op = "boot_first"
     /\ hist[1].res.ok
     /\ hist[2].call = hist[1].call) =>
        \A i \in 1..Len(hist[2].reqs) :
            hist[2].reqs[i].verb = "PATCH" =>
                hist[2].reqs[i].body.Boot.BootOrder = hist[1].bmc.order

(***************************************************************************)
(* Two boot_first invocations at once.                                     *)
(***************************************************************************)
\* C23: when two boot_first invocations for different targets, interleaved on
\* one client, have both returned Ok, the BootOrder on the BMC is the list of
\* the last PATCH, a permutation of the original ids, and its first element
\* is an option one of the two targets looks for.
C23_LastPatchWins ==
    (/\ Len(hist) = 2
     /\ "parked" \in DOMAIN loc
     /\ hist[1].res.ok
     /\ hist[2].res.ok) =>
        LET last == CHOOSE i \in Patches :
                        /\ reqs[i].outcome = "ok"
                        /\ \A j \in Patches : j > i => reqs[j].outcome # "ok"
        IN /\ bmc.order = reqs[last].body.Boot.BootOrder
           /\ IsPermutationOf(bmc.order, BootOrderRead)
           /\ bmc.order # <<>> =>
                \E k \in 1..2 : MatchesTarget(bmc.order[1], hist[k].call.arg)

====
